---- MODULE Spec2Model ----
(***************************************************************************)
(* Quiz scoring and attempt lifecycle, result, payment, report, couples,  *)
(* compatibility, password reset, challenge and team routes of           *)
(* backend/server.py.                                                      *)
(*                                                                         *)
(* Strings that the code transforms (selected_option, through .lower())   *)
(* are sequences of one-character strings; ids are TLA+ strings or        *)
(* naturals.  balance_index is kept in hundredths (50 stands for 0.5).    *)
(* A handler is split at its awaits: one action per database operation,   *)
(* together with the local computation around it.                         *)
(***************************************************************************)
EXTENDS Integers, Sequences, FiniteSets, TLC

\* ---------------------------------------------------------------- bounds
MaxAnswers == 4
MaxConcAnswers == 1
MaxAttempts == 2
MaxResults == 2
MaxPayments == 1
MaxReports == 1
MaxAccounts == 2
MaxResetAttempts == 4
MaxTokens == 2
MaxTime == 5400
MaxChallenges == 1
MaxTeamPacks == 1
MaxInvites == 1
MaxPacks == 1

\* ---------------------------------------------------------------- inputs
Users == {"u1", "u2"}
Series == {"family", "couples"}
Procs == {1, 2}

driver == <<"d", "r", "i", "v", "e", "r">>
spark == <<"s", "p", "a", "r", "k">>
anchor == <<"a", "n", "c", "h", "o", "r">>
analyst == <<"a", "n", "a", "l", "y", "s", "t">>

\* The order in which the scores dict is built.
ARCHETYPE_ORDER == <<driver, spark, anchor, analyst>>

\* Series seeded at startup get question ids q_<series>_<idx+1>; the
\* question at idx 0 is a stress marker, the one at idx 1 is not.
SeedQuestions ==
    { [question_id |-> "q_family_1", stress_marker_flag |-> TRUE],
      [question_id |-> "q_family_2", stress_marker_flag |-> FALSE] }

Answer(q, o) == [question_id |-> q, selected_option |-> o]

\* Answers a client may send in a submission.
AnswerChoices ==
    { Answer("q_family_1", <<"D", "r", "i", "v", "e", "r">>),
      Answer("q_family_2", driver),
      Answer("q_none", <<"D", "R", "I", "V", "E", "R">>),
      Answer("q_family_1", spark),
      Answer("q_family_2", <<"A", "n", "c", "h", "o", "r">>),
      Answer("q_family_2", analyst),
      Answer("q_family_2", <<"o", "t", "h", "e", "r">>) }

ConcAnswerChoices ==
    { Answer("q_family_1", <<"D", "r", "i", "v", "e", "r">>),
      Answer("q_family_1", spark),
      Answer("q_family_2", <<"o", "t", "h", "e", "r">>) }

\* What the concurrent specification draws its requests from.
ConcSeries == {"family"}
AdminQuestionIds == {"q_family_1"}

SeqsUpTo(S, n) == UNION { [1..k -> S] : k \in 0..n }

\* ------------------------------------------------------------- state
VARIABLES
    questions,      \* db.questions: documents (question_id, stress_marker_flag)
    quiz_attempts,  \* db.quiz_attempts, in insertion order
    results,        \* db.results, in insertion order
    pc,             \* per request slot: where its handler stands
    req,            \* per request slot: the caller and the request body; a
                    \* handler with awaits clears it when it returns
    loc,            \* per request slot: the handler's local variables
    response,       \* per request slot: what its last handler returned
    passes,         \* history: per stored result, the answers and the question
                    \* lookups of the scoring pass that produced it
    payments,       \* db.payments, in insertion order
    reports,        \* db.reports, in insertion order
    couples_packs,  \* db.couples_packs, in insertion order
    users,          \* db.users, in insertion order
    password_resets,          \* db.password_resets, in insertion order
    password_reset_attempts,  \* db.password_reset_attempts, in insertion order
    now,            \* datetime.now(timezone.utc), in seconds
    tokens_issued,  \* how many reset tokens uuid4 has produced
    challenges,     \* db.challenges, in insertion order
    team_packs,     \* db.team_packs, in insertion order
    team_invites,   \* db.team_invites, in insertion order
    accepted,       \* history: the invite of every join_team_pack that
                    \* returned joined, in order
    resets_done     \* history: token, email and new password of every
                    \* reset_password that returned success, in order

\* The collections of the payment, report and couples routes.
payVars == <<payments, reports, couples_packs>>

\* The collections of the team routes.
teamVars == <<team_packs, team_invites, accepted>>

\* The collection of the challenge routes.
challengeVars == <<challenges>>

\* The collections and the clock of the password reset routes.
authVars == <<users, password_resets, password_reset_attempts, now, tokens_issued,
              resets_done>>

\* What the quiz, payment, couples and compatibility routes never touch.
extVars == <<authVars, challengeVars, teamVars>>

\* What the password reset routes never touch.
nonAuthVars == <<questions, quiz_attempts, results, passes, payVars, challengeVars,
                 teamVars>>

\* What the challenge routes never touch.
nonChallengeVars == <<questions, quiz_attempts, results, passes, payVars, authVars,
                      teamVars>>

\* What the team routes never touch.
nonTeamVars == <<questions, quiz_attempts, results, passes, payVars, authVars,
                 challengeVars>>

vars == <<questions, quiz_attempts, results, pc, req, loc, response, passes,
          payments, reports, couples_packs, users, password_resets,
          password_reset_attempts, now, tokens_issued, resets_done, challenges,
          team_packs, team_invites, accepted>>

\* ------------------------------------------------------------- str.lower
UpperLetters == <<"A", "B", "C", "D", "E", "F", "G", "H", "I", "J", "K", "L", "M",
                  "N", "O", "P", "Q", "R", "S", "T", "U", "V", "W", "X", "Y", "Z">>
LowerLetters == <<"a", "b", "c", "d", "e", "f", "g", "h", "i", "j", "k", "l", "m",
                  "n", "o", "p", "q", "r", "s", "t", "u", "v", "w", "x", "y", "z">>

LowerChar(c) ==
    IF \E k \in 1..Len(UpperLetters) : UpperLetters[k] = c
    THEN LowerLetters[CHOOSE k \in 1..Len(UpperLetters) : UpperLetters[k] = c]
    ELSE c

\* Mutant of lower: the label is compared as sent.
NoLower(s) == s

lower(s) == [k \in 1..Len(s) |-> LowerChar(s[k])]

\* ------------------------------------------------------------- scoring
\* Mutant of NewScores: one dict shared by the requests, which starts a
\* pass with the counts of the result stored last.
SharedScores ==
    IF results = <<>>
    THEN [k \in 1..Len(ARCHETYPE_ORDER) |-> <<ARCHETYPE_ORDER[k], 0>>]
    ELSE results[Len(results)].scores

\* Mutant of NewScores: the keys in alphabetical order.
AlphabeticalScores == << <<analyst, 0>>, <<anchor, 0>>, <<driver, 0>>, <<spark, 0>> >>

\* scores = {"driver": 0, "spark": 0, "anchor": 0, "analyst": 0}: a dict is
\* its items in insertion order.
NewScores == [k \in 1..Len(ARCHETYPE_ORDER) |-> <<ARCHETYPE_ORDER[k], 0>>]

InScores(archetype, scores) == \E k \in 1..Len(scores) : scores[k][1] = archetype

\* if archetype in scores: scores[archetype] += 1
CountAnswer(scores, archetype) ==
    [k \in 1..Len(scores) |->
        IF scores[k][1] = archetype THEN <<scores[k][1], scores[k][2] + 1>> ELSE scores[k]]

\* Mutant of IsStressMarker: any answer to a stress-flagged question.
IsStressMarkerAnyArchetype(question, archetype) ==
    /\ question # {}
    /\ \E q \in question : q.stress_marker_flag

\* question and question.get("stress_marker_flag") and archetype == "driver"
IsStressMarker(question, archetype) ==
    /\ question # {}
    /\ \E q \in question : q.stress_marker_flag
    /\ archetype = driver

\* Mutant of InsertDesc: the item goes in front of the items of its own
\* count, which reverses the order of equal counts.
RECURSIVE InsertDescStrict(_, _)
InsertDescStrict(item, sorted) ==
    IF sorted = <<>> THEN <<item>>
    ELSE IF Head(sorted)[2] > item[2]
         THEN <<Head(sorted)>> \o InsertDescStrict(item, Tail(sorted))
         ELSE <<item>> \o sorted

\* One step of a stable sort by count, descending: the item goes behind
\* every item whose count is at least its own.
RECURSIVE InsertDesc(_, _)
InsertDesc(item, sorted) ==
    IF sorted = <<>> THEN <<item>>
    ELSE IF Head(sorted)[2] >= item[2]
         THEN <<Head(sorted)>> \o InsertDesc(item, Tail(sorted))
         ELSE <<item>> \o sorted

\* sorted(scores.items(), key=lambda x: x[1], reverse=True)
RECURSIVE SortedScores(_)
SortedScores(items) ==
    IF items = <<>> THEN <<>>
    ELSE InsertDesc(items[Len(items)], SortedScores(SubSeq(items, 1, Len(items) - 1)))

RECURSIVE MaxValue(_)
MaxValue(scores) ==
    IF Len(scores) = 1 THEN scores[1][2]
    ELSE LET m == MaxValue(Tail(scores))
         IN IF scores[1][2] >= m THEN scores[1][2] ELSE m

RECURSIVE MinValue(_)
MinValue(scores) ==
    IF Len(scores) = 1 THEN scores[1][2]
    ELSE LET m == MinValue(Tail(scores))
         IN IF scores[1][2] <= m THEN scores[1][2] ELSE m

\* Mutant of TotalQuestions: only the answers that were counted.
TotalScored(answers) ==
    LET n == Cardinality({ k \in 1..Len(answers) :
                 InScores(lower(answers[k].selected_option), NewScores) })
    IN IF n = 0 THEN 1 ELSE n

\* total_questions = len(data.answers) or 1
TotalQuestions(answers) == IF Len(answers) = 0 THEN 1 ELSE Len(answers)

\* Mutant of Round2: the quotient as a percentage, round(100 * n / d, 2).
Round2Percent(n, d) == 100 * ((100 * n) \div d) + (100 * ((100 * n) % d)) \div d

\* round(n / d, 2) in hundredths, for 0 <= n <= d: the nearest hundredth,
\* an exact tie going to the even one.  A tie needs 8 | d; for d = 8, 16,
\* 24, 32 the quotient is exact in binary and round() breaks the tie to
\* even.  From d = 40 on the double nearest to n / d decides, so this holds
\* for d < 40.
Round2(n, d) ==
    LET q == (100 * n) \div d
        r == (100 * n) % d
    IN IF 2 * r < d THEN q
       ELSE IF 2 * r > d THEN q + 1
       ELSE IF q % 2 = 0 THEN q ELSE q + 1

BalanceIndex(scores, answers) ==
    Round2(MaxValue(scores) - MinValue(scores), TotalQuestions(answers))

\* Mutant of StressFlag: more than three.
StressFlagAbove(stress_markers) == stress_markers > 3

\* stress_flag = stress_markers >= 3
StressFlag(stress_markers) == stress_markers >= 3

\* ------------------------------------------------------------- initial state
NoReq == [user_id |-> "", attempt_id |-> 0, answers |-> <<>>]
NoLoc == [series |-> "", scores |-> <<>>, stress_markers |-> 0, seen |-> <<>>,
          result_id |-> 0]
NoResponse == [status |-> 0]

Init ==
    /\ questions = SeedQuestions
    /\ quiz_attempts = <<>>
    /\ results = <<>>
    /\ pc = [p \in Procs |-> "idle"]
    /\ req = [p \in Procs |-> NoReq]
    /\ loc = [p \in Procs |-> NoLoc]
    /\ response = [p \in Procs |-> NoResponse]
    /\ passes = <<>>
    /\ payments = <<>>
    /\ reports = <<>>
    /\ couples_packs = <<>>
    /\ users = <<>>
    /\ password_resets = <<>>
    /\ password_reset_attempts = <<>>
    /\ now = 0
    /\ tokens_issued = 0
    /\ resets_done = <<>>
    /\ challenges = <<>>
    /\ team_packs = <<>>
    /\ team_invites = <<>>
    /\ accepted = <<>>

\* ------------------------------------------------------------- quiz routes
\* POST /quiz/start.  The uuid of the new attempt is a fresh id.
start_quiz(u, s) ==
    /\ Len(quiz_attempts) < MaxAttempts  \* model bound
    /\ quiz_attempts' = Append(quiz_attempts,
           [attempt_id |-> Len(quiz_attempts) + 1, user_id |-> u, series |-> s,
            status |-> "in_progress", answers |-> <<>>])
    /\ UNCHANGED <<extVars, questions, results, pc, req, loc, response, passes, payVars>>

\* db.quiz_attempts.find_one({"attempt_id": ..., "user_id": ...})
FindAttempt(aid, u) ==
    SelectSeq(quiz_attempts, LAMBDA a : a.attempt_id = aid /\ a.user_id = u)

\* db.questions.find_one({"question_id": ...}): the set of the documents
\* found, empty for None.
FindQuestion(qid) == { q \in questions : q.question_id = qid }

\* Submissions that will still insert a result.
Scoring == { p \in Procs : pc[p] \in {"score_answer", "insert_result"} }

\* POST /quiz/submit, up to the first await: the attempt of the caller is
\* looked up; 404 when there is none.
submit_quiz(p, u, aid, answers) ==
    /\ pc[p] = "idle"
    /\ \/ /\ FindAttempt(aid, u) = <<>>
          /\ response' = [response EXCEPT ![p] = [status |-> 404]]
          /\ UNCHANGED <<pc, req, loc>>
       \/ /\ FindAttempt(aid, u) # <<>>
          /\ Len(results) + Cardinality(Scoring) < MaxResults  \* model bound
          /\ req' = [req EXCEPT ![p] =
                 [user_id |-> u, attempt_id |-> aid, answers |-> answers]]
          /\ loc' = [loc EXCEPT ![p] =
                 [series |-> FindAttempt(aid, u)[1].series, scores |-> NewScores,
                  stress_markers |-> 0, seen |-> <<>>, result_id |-> 0]]
          /\ pc' = [pc EXCEPT ![p] =
                 IF answers = <<>> THEN "insert_result" ELSE "score_answer"]
          /\ response' = [response EXCEPT ![p] = NoResponse]
    /\ UNCHANGED <<extVars, questions, quiz_attempts, results, passes, payVars>>

\* One pass of "for answer in data.answers": the count, the question
\* lookup (an await) and the stress marker.
submit_quiz_score_answer(p) ==
    /\ pc[p] = "score_answer"
    /\ LET answer == req[p].answers[Len(loc[p].seen) + 1]
           archetype == lower(answer.selected_option)
           question == FindQuestion(answer.question_id)
       IN /\ loc' = [loc EXCEPT ![p] =
                 [@ EXCEPT
                    !.scores = IF InScores(archetype, @)
                               THEN CountAnswer(@, archetype) ELSE @,
                    !.stress_markers = IF IsStressMarker(question, archetype)
                                       THEN @ + 1 ELSE @,
                    !.seen = Append(@, question)]]
          /\ pc' = [pc EXCEPT ![p] =
                 IF Len(loc[p].seen) + 1 = Len(req[p].answers)
                 THEN "insert_result" ELSE "score_answer"]
    /\ UNCHANGED <<extVars, questions, quiz_attempts, results, req, response, passes, payVars>>

\* The result document of a submission whose loop has ended.
NewResult(p) ==
    [result_id |-> Len(results) + 1,
     user_id |-> req[p].user_id,
     attempt_id |-> req[p].attempt_id,
     series |-> loc[p].series,
     primary_archetype |-> SortedScores(loc[p].scores)[1][1],
     secondary_archetype |-> SortedScores(loc[p].scores)[2][1],
     scores |-> loc[p].scores,
     balance_index |-> BalanceIndex(loc[p].scores, req[p].answers),
     stress_flag |-> StressFlag(loc[p].stress_markers),
     is_paid |-> FALSE]

\* Ranking, balance index, stress flag and db.results.insert_one(result).
submit_quiz_insert_result(p) ==
    /\ pc[p] = "insert_result"
    /\ results' = Append(results, NewResult(p))
    /\ passes' = Append(passes, [answers |-> req[p].answers, seen |-> loc[p].seen])
    /\ loc' = [loc EXCEPT ![p].result_id = NewResult(p).result_id]
    /\ pc' = [pc EXCEPT ![p] = "update_attempt"]
    /\ UNCHANGED <<extVars, questions, quiz_attempts, req, response, payVars>>

\* Mutant of UpdateAttempt: the status is written as "complete".
UpdateAttemptComplete(aid, answers) ==
    [k \in 1..Len(quiz_attempts) |->
        IF quiz_attempts[k].attempt_id = aid
        THEN [quiz_attempts[k] EXCEPT !.status = "complete", !.answers = answers]
        ELSE quiz_attempts[k]]

\* db.quiz_attempts.update_one({"attempt_id": ...}, {"$set": ...}): the
\* first document with that id.
UpdateAttempt(aid, answers) ==
    LET hits == { k \in 1..Len(quiz_attempts) : quiz_attempts[k].attempt_id = aid }
        first == CHOOSE k \in hits : \A j \in hits : k <= j
    IN IF hits = {} THEN quiz_attempts
       ELSE [quiz_attempts EXCEPT ![first] =
                [@ EXCEPT !.status = "completed", !.answers = answers]]

\* Mutant of OwnResult: the response is built from the result inserted last,
\* whichever submission inserted it.
LastResult(p) == results[Len(results)]

\* The stored result of a slot that has inserted one.
OwnResult(p) == CHOOSE r \in { results[k] : k \in 1..Len(results) } :
                    r.result_id = loc[p].result_id

\* The attempt is marked completed and the response returned.
submit_quiz_update_attempt(p) ==
    /\ pc[p] = "update_attempt"
    /\ quiz_attempts' = UpdateAttempt(req[p].attempt_id, req[p].answers)
    /\ response' = [response EXCEPT ![p] =
           [status |-> 200,
            result_id |-> loc[p].result_id,
            primary_archetype |-> OwnResult(p).primary_archetype,
            secondary_archetype |-> OwnResult(p).secondary_archetype,
            scores |-> OwnResult(p).scores,
            balance_index |-> OwnResult(p).balance_index,
            stress_flag |-> OwnResult(p).stress_flag]]
    /\ pc' = [pc EXCEPT ![p] = "idle"]
    /\ req' = [req EXCEPT ![p] = NoReq]
    /\ loc' = [loc EXCEPT ![p] = NoLoc]
    /\ UNCHANGED <<extVars, questions, results, passes, payVars>>

\* ------------------------------------------------------------- admin routes
\* PUT /admin/questions/{question_id}: $set of the body on the question.
update_question(qid, flag) ==
    /\ FindQuestion(qid) # {}
    /\ questions' = { IF q.question_id = qid
                      THEN [q EXCEPT !.stress_marker_flag = flag] ELSE q : q \in questions }
    /\ UNCHANGED <<extVars, quiz_attempts, results, pc, req, loc, response, passes, payVars>>

\* DELETE /admin/questions/{question_id}
delete_question(qid) ==
    /\ FindQuestion(qid) # {}
    /\ questions' = questions \ FindQuestion(qid)
    /\ UNCHANGED <<extVars, quiz_attempts, results, pc, req, loc, response, passes, payVars>>

\* ------------------------------------------------------------- result route
\* Mutant of FindResult: the result is looked up by its id alone.
FindResultOfAnyone(rid, u) ==
    SelectSeq(results, LAMBDA r : r.result_id = rid)

\* db.results.find_one({"result_id": ..., "user_id": ...})
FindResult(rid, u) ==
    SelectSeq(results, LAMBDA r : r.result_id = rid /\ r.user_id = u)

\* GET /quiz/result/{result_id}: the result of the caller, or 404.
get_result(p, u, rid) ==
    /\ pc[p] = "idle"
    /\ response' = [response EXCEPT ![p] =
           IF FindResult(rid, u) = <<>> THEN [status |-> 404]
           ELSE [status |-> 200, result |-> FindResult(rid, u)[1]]]
    /\ UNCHANGED <<extVars, questions, quiz_attempts, results, pc, req, loc, passes, payVars>>

\* ------------------------------------------------------------- payment routes
\* The product types a payment is requested for; PRODUCTS holds the first.
ReportLanguages == {"id"}
PayAnswers == { <<>>, <<Answer("q_family_1", driver)>> }
ProductTypes == {"single_report", "lifetime"}
PRODUCTS == {"single_report", "family_pack", "team_pack", "couples_pack", "subscription"}

\* POST /payment/create: 400 for an unknown product; otherwise a pending
\* payment for whatever result_id the body names.
create_payment(p, u, rid, product_type) ==
    /\ pc[p] = "idle"
    /\ \/ /\ product_type \notin PRODUCTS
          /\ response' = [response EXCEPT ![p] = [status |-> 400]]
          /\ UNCHANGED payments
       \/ /\ product_type \in PRODUCTS
          /\ Len(payments) < MaxPayments  \* model bound
          /\ payments' = Append(payments,
                 [payment_id |-> Len(payments) + 1, user_id |-> u, result_id |-> rid,
                  product_type |-> product_type, status |-> "pending"])
          /\ response' = [response EXCEPT ![p] =
                 [status |-> 200, payment_id |-> Len(payments) + 1]]
    /\ UNCHANGED <<extVars, questions, quiz_attempts, results, pc, req, loc, passes,
                   reports, couples_packs>>

\* db.payments.find_one({"payment_id": ...})
FindPayment(pid) == SelectSeq(payments, LAMBDA d : d.payment_id = pid)

\* Mutant of FindPaymentOf: the payment is looked up by its id alone.
FindPaymentOfAnyone(pid, u) == SelectSeq(payments, LAMBDA d : d.payment_id = pid)

\* db.payments.find_one({"payment_id": ..., "user_id": ...})
FindPaymentOf(pid, u) ==
    SelectSeq(payments, LAMBDA d : d.payment_id = pid /\ d.user_id = u)

\* db.payments.update_one({"payment_id": ...}, {"$set": {"status": "paid"}})
MarkPaymentPaid(pid) ==
    LET hits == { k \in 1..Len(payments) : payments[k].payment_id = pid }
        first == CHOOSE k \in hits : \A j \in hits : k <= j
    IN IF hits = {} THEN payments
       ELSE [payments EXCEPT ![first] = [@ EXCEPT !.status = "paid"]]

\* Mutant of MarkPaid: the update also clears the stress flag of the result.
MarkPaidAndUnflag(rid) ==
    [k \in 1..Len(results) |->
        IF results[k].result_id = rid
        THEN [results[k] EXCEPT !.is_paid = TRUE, !.stress_flag = ~@]
        ELSE results[k]]

\* db.results.update_one({"result_id": ...}, {"$set": {"is_paid": True}})
MarkPaid(rid) ==
    LET hits == { k \in 1..Len(results) : results[k].result_id = rid }
        first == CHOOSE k \in hits : \A j \in hits : k <= j
    IN IF hits = {} THEN results
       ELSE [results EXCEPT ![first] = [@ EXCEPT !.is_paid = TRUE]]

Received == [status |-> 200, detail |-> "received"]

\* POST /payment/webhook, up to the first database await: 401 unless the
\* callback token is the configured one; a status other than PAID is only
\* acknowledged.
payment_webhook(p, token_ok, external_id, status) ==
    /\ pc[p] = "idle"
    /\ \/ /\ ~token_ok
          /\ response' = [response EXCEPT ![p] = [status |-> 401]]
          /\ UNCHANGED <<pc, req>>
       \/ /\ token_ok
          /\ status # "PAID"
          /\ response' = [response EXCEPT ![p] = Received]
          /\ UNCHANGED <<pc, req>>
       \/ /\ token_ok
          /\ status = "PAID"
          /\ req' = [req EXCEPT ![p] = [external_id |-> external_id]]
          /\ pc' = [pc EXCEPT ![p] = "webhook_update_payment"]
          /\ response' = [response EXCEPT ![p] = NoResponse]
    /\ UNCHANGED <<extVars, questions, quiz_attempts, results, loc, passes, payVars>>

payment_webhook_update_payment(p) ==
    /\ pc[p] = "webhook_update_payment"
    /\ payments' = MarkPaymentPaid(req[p].external_id)
    /\ pc' = [pc EXCEPT ![p] = "webhook_find_payment"]
    /\ UNCHANGED <<extVars, questions, quiz_attempts, results, req, loc, response, passes,
                   reports, couples_packs>>

payment_webhook_find_payment(p) ==
    /\ pc[p] = "webhook_find_payment"
    /\ LET payment == FindPayment(req[p].external_id)
       IN \/ /\ payment = <<>>
             /\ response' = [response EXCEPT ![p] = Received]
             /\ pc' = [pc EXCEPT ![p] = "idle"]
             /\ req' = [req EXCEPT ![p] = NoReq]
             /\ UNCHANGED loc
          \/ /\ payment # <<>>
             /\ loc' = [loc EXCEPT ![p] = [payment |-> payment[1]]]
             /\ pc' = [pc EXCEPT ![p] = "webhook_update_result"]
             /\ UNCHANGED <<req, response>>
    /\ UNCHANGED <<extVars, questions, quiz_attempts, results, passes, payVars>>

payment_webhook_update_result(p) ==
    /\ pc[p] = "webhook_update_result"
    /\ results' = MarkPaid(loc[p].payment.result_id)
    /\ response' = [response EXCEPT ![p] = Received]
    /\ pc' = [pc EXCEPT ![p] = "idle"]
    /\ req' = [req EXCEPT ![p] = NoReq]
    /\ loc' = [loc EXCEPT ![p] = NoLoc]
    /\ UNCHANGED <<extVars, questions, quiz_attempts, passes, payVars>>

\* POST /payment/simulate-payment/{payment_id}, up to the first update:
\* the payment of the caller is looked up; 404 when there is none.
simulate_payment(p, u, pid) ==
    /\ pc[p] = "idle"
    /\ \/ /\ FindPaymentOf(pid, u) = <<>>
          /\ response' = [response EXCEPT ![p] = [status |-> 404]]
          /\ UNCHANGED <<pc, req, loc>>
       \/ /\ FindPaymentOf(pid, u) # <<>>
          /\ req' = [req EXCEPT ![p] = [user_id |-> u, payment_id |-> pid]]
          /\ loc' = [loc EXCEPT ![p] = [payment |-> FindPaymentOf(pid, u)[1]]]
          /\ pc' = [pc EXCEPT ![p] = "simulate_update_payment"]
          /\ response' = [response EXCEPT ![p] = NoResponse]
    /\ UNCHANGED <<extVars, questions, quiz_attempts, results, passes, payVars>>

simulate_payment_update_payment(p) ==
    /\ pc[p] = "simulate_update_payment"
    /\ payments' = MarkPaymentPaid(req[p].payment_id)
    /\ pc' = [pc EXCEPT ![p] = "simulate_update_result"]
    /\ UNCHANGED <<extVars, questions, quiz_attempts, results, req, loc, response, passes,
                   reports, couples_packs>>

simulate_payment_update_result(p) ==
    /\ pc[p] = "simulate_update_result"
    /\ results' = MarkPaid(loc[p].payment.result_id)
    /\ response' = [response EXCEPT ![p] = [status |-> 200, detail |-> "success"]]
    /\ pc' = [pc EXCEPT ![p] = "idle"]
    /\ req' = [req EXCEPT ![p] = NoReq]
    /\ loc' = [loc EXCEPT ![p] = NoLoc]
    /\ UNCHANGED <<extVars, questions, quiz_attempts, passes, payVars>>

\* ------------------------------------------------------------- report route
\* db.reports.find_one({"result_id": ..., "language": ...})
FindReport(rid, language) ==
    SelectSeq(reports, LAMBDA d : d.result_id = rid /\ d.language = language)

\* Mutant of IsPaid: every result passes for a paid one.
IsPaidAlways(result) == TRUE

\* result.get("is_paid", False)
IsPaid(result) == result.is_paid

\* POST /report/generate/{result_id}, up to the lookup of an existing
\* report: 404 unless the result is the caller's, 402 unless it is paid.
generate_report(p, u, rid, language) ==
    /\ pc[p] = "idle"
    /\ \/ /\ FindResult(rid, u) = <<>>
          /\ response' = [response EXCEPT ![p] = [status |-> 404]]
          /\ UNCHANGED <<pc, req, loc>>
       \/ /\ FindResult(rid, u) # <<>>
          /\ ~IsPaid(FindResult(rid, u)[1])
          /\ response' = [response EXCEPT ![p] = [status |-> 402]]
          /\ UNCHANGED <<pc, req, loc>>
       \/ /\ FindResult(rid, u) # <<>>
          /\ IsPaid(FindResult(rid, u)[1])
          /\ \/ FindReport(rid, language) # <<>>
             \/ Len(reports) + Cardinality({ o \in Procs :
                    pc[o] \in {"report_find_existing", "report_send_message",
                               "report_insert"} }) < MaxReports  \* model bound
          /\ req' = [req EXCEPT ![p] =
                 [user_id |-> u, result_id |-> rid, language |-> language]]
          /\ loc' = [loc EXCEPT ![p] = [result |-> FindResult(rid, u)[1]]]
          /\ pc' = [pc EXCEPT ![p] = "report_find_existing"]
          /\ response' = [response EXCEPT ![p] = NoResponse]
    /\ UNCHANGED <<extVars, questions, quiz_attempts, results, passes, payVars>>

\* An existing report for the result and the language is returned as it is.
generate_report_find_existing(p) ==
    /\ pc[p] = "report_find_existing"
    /\ LET existing_report == FindReport(req[p].result_id, req[p].language)
       IN \/ /\ existing_report # <<>>
             /\ response' = [response EXCEPT ![p] =
                    [status |-> 200, report |-> existing_report[1]]]
             /\ pc' = [pc EXCEPT ![p] = "idle"]
             /\ req' = [req EXCEPT ![p] = NoReq]
             /\ loc' = [loc EXCEPT ![p] = NoLoc]
          \/ /\ existing_report = <<>>
             /\ pc' = [pc EXCEPT ![p] = "report_send_message"]
             /\ UNCHANGED <<req, loc, response>>
    /\ UNCHANGED <<extVars, questions, quiz_attempts, results, passes, payVars>>

\* await chat.send_message(...): the text arrives, or the call raises and
\* the handler answers 500.
generate_report_send_message(p) ==
    /\ pc[p] = "report_send_message"
    /\ \/ /\ pc' = [pc EXCEPT ![p] = "report_insert"]
          /\ UNCHANGED <<req, loc, response>>
       \/ /\ response' = [response EXCEPT ![p] = [status |-> 500]]
          /\ pc' = [pc EXCEPT ![p] = "idle"]
          /\ req' = [req EXCEPT ![p] = NoReq]
          /\ loc' = [loc EXCEPT ![p] = NoLoc]
    /\ UNCHANGED <<extVars, questions, quiz_attempts, results, passes, payVars>>

\* The report written from the result read at the start of the handler;
\* its text is left out.
NewReport(p) ==
    [report_id |-> Len(reports) + 1,
     result_id |-> req[p].result_id,
     user_id |-> req[p].user_id,
     language |-> req[p].language]

generate_report_insert(p) ==
    /\ pc[p] = "report_insert"
    /\ reports' = Append(reports, NewReport(p))
    /\ response' = [response EXCEPT ![p] = [status |-> 200, report |-> NewReport(p)]]
    /\ pc' = [pc EXCEPT ![p] = "idle"]
    /\ req' = [req EXCEPT ![p] = NoReq]
    /\ loc' = [loc EXCEPT ![p] = NoLoc]
    /\ UNCHANGED <<extVars, questions, quiz_attempts, results, passes, payments, couples_packs>>

\* ------------------------------------------------------------- couples routes
\* None, for a user id and for a result id.
NoUser == ""
NoResult == 0

\* POST /couples/create-pack
create_couples_pack(u) ==
    /\ Len(couples_packs) < MaxPacks  \* model bound
    /\ couples_packs' = Append(couples_packs,
           [pack_id |-> Len(couples_packs) + 1, creator_id |-> u,
            partner_id |-> NoUser, creator_result_id |-> NoResult,
            partner_result_id |-> NoResult, status |-> "pending_partner"])
    /\ UNCHANGED <<extVars, questions, quiz_attempts, results, pc, req, loc, response, passes,
                   payments, reports>>

\* db.couples_packs.find_one({"pack_id": ...})
FindPack(pack_id) == SelectSeq(couples_packs, LAMBDA d : d.pack_id = pack_id)

\* db.couples_packs.update_one({"pack_id": ...}, {"$set": {field: value}})
UpdatePack(pack_id, field, value) ==
    LET hits == { k \in 1..Len(couples_packs) : couples_packs[k].pack_id = pack_id }
        first == CHOOSE k \in hits : \A j \in hits : k <= j
    IN IF hits = {} THEN couples_packs
       ELSE [couples_packs EXCEPT ![first] = [@ EXCEPT ![field] = value]]

\* POST /couples/join/{pack_id}, up to the update: 404 without the pack,
\* 400 when it has a partner or the caller created it.
join_couples_pack(p, u, pack_id) ==
    /\ pc[p] = "idle"
    /\ LET pack == FindPack(pack_id)
       IN \/ /\ pack = <<>>
             /\ response' = [response EXCEPT ![p] = [status |-> 404]]
             /\ UNCHANGED <<pc, req>>
          \/ /\ pack # <<>>
             /\ pack[1].partner_id # NoUser \/ pack[1].creator_id = u
             /\ response' = [response EXCEPT ![p] = [status |-> 400]]
             /\ UNCHANGED <<pc, req>>
          \/ /\ pack # <<>>
             /\ pack[1].partner_id = NoUser
             /\ pack[1].creator_id # u
             /\ req' = [req EXCEPT ![p] = [user_id |-> u, pack_id |-> pack_id]]
             /\ pc' = [pc EXCEPT ![p] = "join_update_pack"]
             /\ response' = [response EXCEPT ![p] = NoResponse]
    /\ UNCHANGED <<extVars, questions, quiz_attempts, results, loc, passes, payVars>>

join_couples_pack_update_pack(p) ==
    /\ pc[p] = "join_update_pack"
    /\ couples_packs' =
           LET hits == { k \in 1..Len(couples_packs) :
                            couples_packs[k].pack_id = req[p].pack_id }
               first == CHOOSE k \in hits : \A j \in hits : k <= j
           IN IF hits = {} THEN couples_packs
              ELSE [couples_packs EXCEPT ![first] =
                       [@ EXCEPT !.partner_id = req[p].user_id,
                                 !.status = "pending_tests"]]
    /\ response' = [response EXCEPT ![p] =
           [status |-> 200, detail |-> "joined", pack_id |-> req[p].pack_id]]
    /\ pc' = [pc EXCEPT ![p] = "idle"]
    /\ req' = [req EXCEPT ![p] = NoReq]
    /\ UNCHANGED <<extVars, questions, quiz_attempts, results, loc, passes, payments, reports>>

\* POST /couples/link-result/{pack_id}, up to the lookup of the result.
link_result_to_pack(p, u, pack_id, rid) ==
    /\ pc[p] = "idle"
    /\ \/ /\ FindPack(pack_id) = <<>>
          /\ response' = [response EXCEPT ![p] = [status |-> 404]]
          /\ UNCHANGED <<pc, req, loc>>
       \/ /\ FindPack(pack_id) # <<>>
          /\ req' = [req EXCEPT ![p] =
                 [user_id |-> u, pack_id |-> pack_id, result_id |-> rid]]
          /\ loc' = [loc EXCEPT ![p] = [pack |-> FindPack(pack_id)[1]]]
          /\ pc' = [pc EXCEPT ![p] = "link_find_result"]
          /\ response' = [response EXCEPT ![p] = NoResponse]
    /\ UNCHANGED <<extVars, questions, quiz_attempts, results, passes, payVars>>

\* The result must be the caller's (404) and the caller the creator or the
\* partner of the pack as it was read (403).
link_result_to_pack_find_result(p) ==
    /\ pc[p] = "link_find_result"
    /\ LET result == FindResult(req[p].result_id, req[p].user_id)
           pack == loc[p].pack
           update_field == IF pack.creator_id = req[p].user_id THEN "creator_result_id"
                           ELSE IF pack.partner_id = req[p].user_id
                                THEN "partner_result_id" ELSE "none"
       IN \/ /\ result = <<>> \/ update_field = "none"
             /\ response' = [response EXCEPT ![p] =
                    [status |-> IF result = <<>> THEN 404 ELSE 403]]
             /\ pc' = [pc EXCEPT ![p] = "idle"]
             /\ req' = [req EXCEPT ![p] = NoReq]
             /\ loc' = [loc EXCEPT ![p] = NoLoc]
          \/ /\ result # <<>>
             /\ update_field # "none"
             /\ loc' = [loc EXCEPT ![p] = [update_field |-> update_field]]
             /\ pc' = [pc EXCEPT ![p] = "link_update_pack"]
             /\ UNCHANGED <<req, response>>
    /\ UNCHANGED <<extVars, questions, quiz_attempts, results, passes, payVars>>

link_result_to_pack_update_pack(p) ==
    /\ pc[p] = "link_update_pack"
    /\ couples_packs' = UpdatePack(req[p].pack_id, loc[p].update_field, req[p].result_id)
    /\ pc' = [pc EXCEPT ![p] = "link_find_updated"]
    /\ UNCHANGED <<extVars, questions, quiz_attempts, results, req, loc, response, passes,
                   payments, reports>>

Linked(p) == [status |-> 200, detail |-> "linked", result_id |-> req[p].result_id]

\* The pack is read again; with both results linked it is completed next.
link_result_to_pack_find_updated(p) ==
    /\ pc[p] = "link_find_updated"
    /\ LET updated_pack == FindPack(req[p].pack_id)[1]
       IN \/ /\ updated_pack.creator_result_id # NoResult
             /\ updated_pack.partner_result_id # NoResult
             /\ pc' = [pc EXCEPT ![p] = "link_complete"]
             /\ UNCHANGED <<req, loc, response>>
          \/ /\ \/ updated_pack.creator_result_id = NoResult
                \/ updated_pack.partner_result_id = NoResult
             /\ response' = [response EXCEPT ![p] = Linked(p)]
             /\ pc' = [pc EXCEPT ![p] = "idle"]
             /\ req' = [req EXCEPT ![p] = NoReq]
             /\ loc' = [loc EXCEPT ![p] = NoLoc]
    /\ UNCHANGED <<extVars, questions, quiz_attempts, results, passes, payVars>>

link_result_to_pack_complete(p) ==
    /\ pc[p] = "link_complete"
    /\ couples_packs' = UpdatePack(req[p].pack_id, "status", "complete")
    /\ response' = [response EXCEPT ![p] = Linked(p)]
    /\ pc' = [pc EXCEPT ![p] = "idle"]
    /\ req' = [req EXCEPT ![p] = NoReq]
    /\ loc' = [loc EXCEPT ![p] = NoLoc]
    /\ UNCHANGED <<extVars, questions, quiz_attempts, results, passes, payments, reports>>

\* ------------------------------------------------------------- compatibility
\* The names and languages the compatibility routes are called with.
CompatNames ==
    { driver, spark, anchor, analyst,
      <<"S", "p", "a", "r", "k">>, <<"A", "N", "C", "H", "O", "R">>,
      <<"f", "o", "o">> }
Languages == {"id", "en", "fr"}

\* The text of one narrative field of a matrix record: what matters of it
\* is which record, which field and which language it belongs to.
Text(key, field) == [key |-> key, field |-> field]

\* One record of COMPATIBILITY_MATRIX under its key.
Entry(key, score, energy) ==
    <<key,
      [compatibility_score |-> score,
       energy |-> energy,
       title_id |-> Text(key, "title_id"),
       title_en |-> Text(key, "title_en"),
       summary_id |-> Text(key, "summary_id"),
       summary_en |-> Text(key, "summary_en"),
       strengths_id |-> Text(key, "strengths_id"),
       strengths_en |-> Text(key, "strengths_en"),
       challenges_id |-> Text(key, "challenges_id"),
       challenges_en |-> Text(key, "challenges_en"),
       tips_id |-> Text(key, "tips_id"),
       tips_en |-> Text(key, "tips_en")]>>

\* Mutant of COMPATIBILITY_MATRIX: anchor_spark carries the score and the
\* energy of another pair.
AsymmetricMatrix ==
    << Entry(<<"d", "r", "i", "v", "e", "r", "_", "d", "r", "i", "v", "e", "r">>,
             65, "high"),
       Entry(<<"d", "r", "i", "v", "e", "r", "_", "s", "p", "a", "r", "k">>,
             85, "very_high"),
       Entry(<<"d", "r", "i", "v", "e", "r", "_", "a", "n", "c", "h", "o", "r">>,
             75, "balanced"),
       Entry(<<"d", "r", "i", "v", "e", "r", "_", "a", "n", "a", "l", "y", "s", "t">>,
             70, "focused"),
       Entry(<<"s", "p", "a", "r", "k", "_", "s", "p", "a", "r", "k">>,
             75, "explosive"),
       Entry(<<"s", "p", "a", "r", "k", "_", "a", "n", "c", "h", "o", "r">>,
             90, "harmonious"),
       Entry(<<"s", "p", "a", "r", "k", "_", "a", "n", "a", "l", "y", "s", "t">>,
             60, "contrasting"),
       Entry(<<"a", "n", "c", "h", "o", "r", "_", "a", "n", "c", "h", "o", "r">>,
             80, "peaceful"),
       Entry(<<"a", "n", "c", "h", "o", "r", "_", "a", "n", "a", "l", "y", "s", "t">>,
             70, "thoughtful"),
       Entry(<<"a", "n", "a", "l", "y", "s", "t", "_", "a", "n", "a", "l", "y", "s", "t">>,
             75, "intellectual"),
       Entry(<<"s", "p", "a", "r", "k", "_", "d", "r", "i", "v", "e", "r">>,
             85, "very_high"),
       Entry(<<"a", "n", "c", "h", "o", "r", "_", "d", "r", "i", "v", "e", "r">>,
             75, "balanced"),
       Entry(<<"a", "n", "a", "l", "y", "s", "t", "_", "d", "r", "i", "v", "e", "r">>,
             70, "focused"),
       Entry(<<"a", "n", "c", "h", "o", "r", "_", "s", "p", "a", "r", "k">>,
             85, "very_high"),
       Entry(<<"a", "n", "a", "l", "y", "s", "t", "_", "s", "p", "a", "r", "k">>,
             60, "contrasting"),
       Entry(<<"a", "n", "a", "l", "y", "s", "t", "_", "a", "n", "c", "h", "o", "r">>,
             70, "thoughtful") >>

\* Mutant of COMPATIBILITY_MATRIX: spark with analyst is missing in both
\* orders.
IncompleteMatrix ==
    << Entry(<<"d", "r", "i", "v", "e", "r", "_", "d", "r", "i", "v", "e", "r">>,
             65, "high"),
       Entry(<<"d", "r", "i", "v", "e", "r", "_", "s", "p", "a", "r", "k">>,
             85, "very_high"),
       Entry(<<"d", "r", "i", "v", "e", "r", "_", "a", "n", "c", "h", "o", "r">>,
             75, "balanced"),
       Entry(<<"d", "r", "i", "v", "e", "r", "_", "a", "n", "a", "l", "y", "s", "t">>,
             70, "focused"),
       Entry(<<"s", "p", "a", "r", "k", "_", "s", "p", "a", "r", "k">>,
             75, "explosive"),
       Entry(<<"s", "p", "a", "r", "k", "_", "a", "n", "c", "h", "o", "r">>,
             90, "harmonious"),
       Entry(<<"a", "n", "c", "h", "o", "r", "_", "a", "n", "c", "h", "o", "r">>,
             80, "peaceful"),
       Entry(<<"a", "n", "c", "h", "o", "r", "_", "a", "n", "a", "l", "y", "s", "t">>,
             70, "thoughtful"),
       Entry(<<"a", "n", "a", "l", "y", "s", "t", "_", "a", "n", "a", "l", "y", "s", "t">>,
             75, "intellectual"),
       Entry(<<"s", "p", "a", "r", "k", "_", "d", "r", "i", "v", "e", "r">>,
             85, "very_high"),
       Entry(<<"a", "n", "c", "h", "o", "r", "_", "d", "r", "i", "v", "e", "r">>,
             75, "balanced"),
       Entry(<<"a", "n", "a", "l", "y", "s", "t", "_", "d", "r", "i", "v", "e", "r">>,
             70, "focused"),
       Entry(<<"a", "n", "c", "h", "o", "r", "_", "s", "p", "a", "r", "k">>,
             90, "harmonious"),
       Entry(<<"a", "n", "a", "l", "y", "s", "t", "_", "a", "n", "c", "h", "o", "r">>,
             70, "thoughtful") >>

\* The dict as its items in source order.
COMPATIBILITY_MATRIX ==
    << Entry(<<"d", "r", "i", "v", "e", "r", "_", "d", "r", "i", "v", "e", "r">>,
             65, "high"),
       Entry(<<"d", "r", "i", "v", "e", "r", "_", "s", "p", "a", "r", "k">>,
             85, "very_high"),
       Entry(<<"d", "r", "i", "v", "e", "r", "_", "a", "n", "c", "h", "o", "r">>,
             75, "balanced"),
       Entry(<<"d", "r", "i", "v", "e", "r", "_", "a", "n", "a", "l", "y", "s", "t">>,
             70, "focused"),
       Entry(<<"s", "p", "a", "r", "k", "_", "s", "p", "a", "r", "k">>,
             75, "explosive"),
       Entry(<<"s", "p", "a", "r", "k", "_", "a", "n", "c", "h", "o", "r">>,
             90, "harmonious"),
       Entry(<<"s", "p", "a", "r", "k", "_", "a", "n", "a", "l", "y", "s", "t">>,
             60, "contrasting"),
       Entry(<<"a", "n", "c", "h", "o", "r", "_", "a", "n", "c", "h", "o", "r">>,
             80, "peaceful"),
       Entry(<<"a", "n", "c", "h", "o", "r", "_", "a", "n", "a", "l", "y", "s", "t">>,
             70, "thoughtful"),
       Entry(<<"a", "n", "a", "l", "y", "s", "t", "_", "a", "n", "a", "l", "y", "s", "t">>,
             75, "intellectual"),
       Entry(<<"s", "p", "a", "r", "k", "_", "d", "r", "i", "v", "e", "r">>,
             85, "very_high"),
       Entry(<<"a", "n", "c", "h", "o", "r", "_", "d", "r", "i", "v", "e", "r">>,
             75, "balanced"),
       Entry(<<"a", "n", "a", "l", "y", "s", "t", "_", "d", "r", "i", "v", "e", "r">>,
             70, "focused"),
       Entry(<<"a", "n", "c", "h", "o", "r", "_", "s", "p", "a", "r", "k">>,
             90, "harmonious"),
       Entry(<<"a", "n", "a", "l", "y", "s", "t", "_", "s", "p", "a", "r", "k">>,
             60, "contrasting"),
       Entry(<<"a", "n", "a", "l", "y", "s", "t", "_", "a", "n", "c", "h", "o", "r">>,
             70, "thoughtful") >>

\* f"{arch1}_{arch2}"
Key(arch1, arch2) == arch1 \o <<"_">> \o arch2

\* key in COMPATIBILITY_MATRIX
InMatrix(key) ==
    \E k \in 1..Len(COMPATIBILITY_MATRIX) : COMPATIBILITY_MATRIX[k][1] = key

\* COMPATIBILITY_MATRIX[key]
MatrixRecord(key) ==
    COMPATIBILITY_MATRIX[CHOOSE k \in 1..Len(COMPATIBILITY_MATRIX) :
                             COMPATIBILITY_MATRIX[k][1] = key][2]

\* Mutant of PairKey: the reversed order is tried first.
PairKeyReversedFirst(arch1, arch2) ==
    IF InMatrix(Key(arch2, arch1)) THEN Key(arch2, arch1) ELSE Key(arch1, arch2)

\* The key in the order of the arguments, and the reversed one if that is
\* not in the matrix.
PairKey(arch1, arch2) ==
    IF InMatrix(Key(arch1, arch2)) THEN Key(arch1, arch2) ELSE Key(arch2, arch1)

\* data[f"{field}_{language}"] raises KeyError for a language the record
\* has no text in, which the framework answers with 500.
HasText(data, field, language) == (field \o "_" \o language) \in DOMAIN data
TextOf(data, field, language) == data[field \o "_" \o language]

\* What GET /compatibility/pair/{arch1}/{arch2} answers.
PairResponse(arch1, arch2, language) ==
    LET a1 == lower(arch1)
        a2 == lower(arch2)
        key == PairKey(a1, a2)
    IN IF ~InMatrix(key) THEN [status |-> 404]
       ELSE LET data == MatrixRecord(key)
            IN IF \E f \in {"title", "summary", "strengths", "challenges", "tips"} :
                      ~HasText(data, f, language)
               THEN [status |-> 500]
               ELSE [status |-> 200,
                     pair |-> Key(a1, a2),
                     archetype1 |-> a1,
                     archetype2 |-> a2,
                     compatibility_score |-> data.compatibility_score,
                     energy |-> data.energy,
                     title |-> TextOf(data, "title", language),
                     summary |-> TextOf(data, "summary", language),
                     strengths |-> TextOf(data, "strengths", language),
                     challenges |-> TextOf(data, "challenges", language),
                     tips |-> TextOf(data, "tips", language)]

\* The handler does not await: the request is answered in one step, and
\* stays on record with its response.
get_compatibility_pair(p, arch1, arch2, language) ==
    /\ pc[p] = "idle"
    /\ req' = [req EXCEPT ![p] =
           [arch1 |-> arch1, arch2 |-> arch2, language |-> language]]
    /\ response' = [response EXCEPT ![p] = PairResponse(arch1, arch2, language)]
    /\ UNCHANGED <<extVars, questions, quiz_attempts, results, pc, loc, passes, payVars>>

\* archetypes = ["driver", "spark", "anchor", "analyst"]
archetypes == <<driver, spark, anchor, analyst>>

\* Mutant of InsertByScore: the entry goes in front of the entries of its
\* own score.
RECURSIVE InsertByScoreStrict(_, _)
InsertByScoreStrict(item, sorted) ==
    IF sorted = <<>> THEN <<item>>
    ELSE IF Head(sorted).compatibility_score > item.compatibility_score
         THEN <<Head(sorted)>> \o InsertByScoreStrict(item, Tail(sorted))
         ELSE <<item>> \o sorted

\* One step of a stable sort by compatibility_score, descending.
RECURSIVE InsertByScore(_, _)
InsertByScore(item, sorted) ==
    IF sorted = <<>> THEN <<item>>
    ELSE IF Head(sorted).compatibility_score >= item.compatibility_score
         THEN <<Head(sorted)>> \o InsertByScore(item, Tail(sorted))
         ELSE <<item>> \o sorted

\* compatibilities.sort(key=lambda x: x["compatibility_score"], reverse=True)
RECURSIVE SortByScore(_)
SortByScore(items) ==
    IF items = <<>> THEN <<>>
    ELSE InsertByScore(items[Len(items)], SortByScore(SubSeq(items, 1, Len(items) - 1)))

\* The entry of the ranking for other_arch.
RankingEntry(archetype, other_arch, language) ==
    LET data == MatrixRecord(PairKey(archetype, other_arch))
    IN [with_archetype |-> other_arch,
        compatibility_score |-> data.compatibility_score,
        energy |-> data.energy,
        title |-> TextOf(data, "title", language),
        summary |-> TextOf(data, "summary", language)]

\* What GET /compatibility/for/{archetype} answers.
RankingResponse(archetype, language) ==
    LET a == lower(archetype)
        found == SelectSeq(archetypes, LAMBDA o : InMatrix(PairKey(a, o)))
    IN IF \A k \in 1..Len(archetypes) : archetypes[k] # a THEN [status |-> 400]
       ELSE IF \E k \in 1..Len(found), f \in {"title", "summary"} :
                   ~HasText(MatrixRecord(PairKey(a, found[k])), f, language)
            THEN [status |-> 500]
            ELSE [status |-> 200,
                  archetype |-> a,
                  compatibilities |->
                      SortByScore([k \in 1..Len(found) |->
                                      RankingEntry(a, found[k], language)])]

get_compatibility_for_archetype(p, archetype, language) ==
    /\ pc[p] = "idle"
    /\ req' = [req EXCEPT ![p] = [archetype |-> archetype, language |-> language]]
    /\ response' = [response EXCEPT ![p] = RankingResponse(archetype, language)]
    /\ UNCHANGED <<extVars, questions, quiz_attempts, results, pc, loc, passes, payVars>>

\* ------------------------------------------------------------- password reset
FORGOT_PASSWORD_RATE_LIMIT == 3
FORGOT_PASSWORD_RATE_WINDOW == 3600

\* timedelta(hours=1): how long a reset token is valid.
TokenLifetime == 3600

\* timedelta(hours=24): attempts older than this are cleaned up.
CleanupAge == 86400

\* len(data.new_password) < 6 is rejected.
MinPasswordLength == 6

\* The clock advances in steps of half a rate window.
TickSeconds == 1800

\* Emails are sequences of one-character strings: forgot_password passes
\* them through .lower().strip().
RegisterEmails == { <<"a">>, <<"A">> }
ForgotEmails == { <<"a">>, <<"A">>, <<"A", " ">> }
RegisterPasswords == {"secret1"}
NewPasswords == {"secret2", "short"}
LoginPasswords == {"secret1", "secret2"}

RECURSIVE lstrip(_)
lstrip(s) == IF s # <<>> /\ s[1] = " " THEN lstrip(Tail(s)) ELSE s

RECURSIVE rstrip(_)
rstrip(s) == IF s # <<>> /\ s[Len(s)] = " " THEN rstrip(SubSeq(s, 1, Len(s) - 1)) ELSE s

\* str.strip over the blank.
strip(s) == rstrip(lstrip(s))

\* bcrypt: the hash of a password verifies that password and no other.  The
\* salt is left out, so two hashes of one password are equal here.
hash_password(password) == <<"bcrypt", password>>

verify_password(password, hashed) == hashed = hash_password(password)

\* A field the document does not have.
NoHash == <<>>

\* db.users.find_one({"email": ...}): the first match, or nothing.
FindUser(email) ==
    LET hits == SelectSeq(users, LAMBDA d : d.email = email)
    IN  IF hits = <<>> THEN <<>> ELSE <<hits[1]>>

\* POST /auth/register: the lookup of the email.
register(p, email, password) ==
    /\ pc[p] = "idle"
    /\ Len(users) + Cardinality({q \in Procs : pc[q] = "register_insert"})
          < MaxAccounts  \* model bound
    /\ IF FindUser(email) # <<>>
       THEN /\ response' = [response EXCEPT ![p] =
                   [status |-> 400, detail |-> "Email already registered"]]
            /\ UNCHANGED <<pc, req>>
       ELSE /\ pc' = [pc EXCEPT ![p] = "register_insert"]
            /\ req' = [req EXCEPT ![p] = [email |-> email, password |-> password]]
            /\ response' = [response EXCEPT ![p] = NoResponse]
    /\ UNCHANGED <<nonAuthVars, loc, authVars>>

\* db.users.insert_one(user_doc) and the token response.
register_insert(p) ==
    /\ pc[p] = "register_insert"
    /\ users' = Append(users, [email |-> req[p].email,
                               password_hash |-> hash_password(req[p].password),
                               hashed_password |-> NoHash])
    /\ response' = [response EXCEPT ![p] = [status |-> 200, email |-> req[p].email]]
    /\ pc' = [pc EXCEPT ![p] = "idle"]
    /\ req' = [req EXCEPT ![p] = NoReq]
    /\ UNCHANGED <<nonAuthVars, loc, password_resets, password_reset_attempts, now, tokens_issued,
                   resets_done>>

\* The hash that login verifies the password against: user["password_hash"].
LoginHash(user) == user.password_hash

\* POST /auth/login.
login(p, email, password) ==
    /\ pc[p] = "idle"
    /\ response' = [response EXCEPT ![p] =
           IF \/ FindUser(email) = <<>>
              \/ ~verify_password(password, LoginHash(FindUser(email)[1]))
           THEN [status |-> 401, detail |-> "Invalid credentials"]
           ELSE [status |-> 200, email |-> FindUser(email)[1].email]]
    /\ UNCHANGED <<nonAuthVars, pc, req, loc, authVars>>

\* count_documents({"email": ..., "timestamp": {"$gte": window_start}})
RecentRequests(email, window_start) ==
    Len(SelectSeq(password_reset_attempts,
                  LAMBDA d : d.email = email /\ d.timestamp >= window_start))

\* find_one(..., sort=[("timestamp", 1)]): the oldest attempt in the window.
OldestRequest(email, window_start) ==
    LET hits == SelectSeq(password_reset_attempts,
                          LAMBDA d : d.email = email /\ d.timestamp >= window_start)
    IN  IF hits = <<>> THEN <<>>
        ELSE <<CHOOSE d \in { hits[k] : k \in 1..Len(hits) } :
                   \A k \in 1..Len(hits) : d.timestamp <= hits[k].timestamp>>

Max0(n) == IF n > 0 THEN n ELSE 0

\* check_rate_limit: not (recent_requests >= FORGOT_PASSWORD_RATE_LIMIT)
IsAllowed(recent_requests) == recent_requests < FORGOT_PASSWORD_RATE_LIMIT

\* POST /auth/forgot-password: the email is normalised and check_rate_limit
\* counts the attempts of the last window.
forgot_password(p, email) ==
    /\ pc[p] = "idle"
    /\ Len(password_reset_attempts)
          + Cardinality({q \in Procs : pc[q] = "forgot_record_attempt"})
          < MaxResetAttempts  \* model bound
    /\ LET e == strip(lower(email))
           recent_requests == RecentRequests(e, now - FORGOT_PASSWORD_RATE_WINDOW)
       IN  /\ req' = [req EXCEPT ![p] = [email |-> email]]
           /\ loc' = [loc EXCEPT ![p] =
                  [email |-> e, now |-> now, recent_requests |-> recent_requests]]
           /\ pc' = [pc EXCEPT ![p] =
                  IF IsAllowed(recent_requests)
                  THEN "forgot_record_attempt" ELSE "forgot_find_oldest"]
           /\ response' = [response EXCEPT ![p] = NoResponse]
    /\ UNCHANGED <<nonAuthVars, authVars>>

\* check_rate_limit over the limit: the oldest attempt of the window gives
\* retry_after, and the request is answered 429.
forgot_password_find_oldest(p) ==
    /\ pc[p] = "forgot_find_oldest"
    /\ LET oldest == OldestRequest(loc[p].email, loc[p].now - FORGOT_PASSWORD_RATE_WINDOW)
       IN  response' = [response EXCEPT ![p] =
               [status |-> 429,
                retry_after |->
                    IF oldest # <<>>
                    THEN Max0(oldest[1].timestamp + FORGOT_PASSWORD_RATE_WINDOW
                                 - loc[p].now)
                    ELSE FORGOT_PASSWORD_RATE_WINDOW]]
    /\ pc' = [pc EXCEPT ![p] = "idle"]
    /\ req' = [req EXCEPT ![p] = NoReq]
    /\ loc' = [loc EXCEPT ![p] = NoLoc]
    /\ UNCHANGED <<nonAuthVars, authVars>>

\* record_reset_attempt: the insert.
forgot_password_record_attempt(p) ==
    /\ pc[p] = "forgot_record_attempt"
    /\ password_reset_attempts' =
           Append(password_reset_attempts, [email |-> loc[p].email, timestamp |-> now])
    /\ pc' = [pc EXCEPT ![p] = "forgot_cleanup"]
    /\ UNCHANGED <<nonAuthVars, req, loc, response, users, password_resets, now,
                   tokens_issued, resets_done>>

\* record_reset_attempt: the delete_many of attempts older than 24 hours.
forgot_password_cleanup(p) ==
    /\ pc[p] = "forgot_cleanup"
    /\ password_reset_attempts' =
           SelectSeq(password_reset_attempts, LAMBDA d : ~(d.timestamp < now - CleanupAge))
    /\ pc' = [pc EXCEPT ![p] = "forgot_find_user"]
    /\ UNCHANGED <<nonAuthVars, req, loc, response, users, password_resets, now,
                   tokens_issued, resets_done>>

\* remaining_attempts of the response.
Remaining(p) == FORGOT_PASSWORD_RATE_LIMIT - loc[p].recent_requests - 1

\* db.users.find_one({"email": email}).  An unknown email is answered like a
\* known one; for a known one the token and its expiry are made.  No route
\* stores a google_id, so the Google branch is never taken.
forgot_password_find_user(p) ==
    /\ pc[p] = "forgot_find_user"
    /\ IF FindUser(loc[p].email) = <<>>
       THEN /\ response' = [response EXCEPT ![p] =
                   [status |-> 200, remaining_attempts |-> Remaining(p)]]
            /\ pc' = [pc EXCEPT ![p] = "idle"]
            /\ req' = [req EXCEPT ![p] = NoReq]
            /\ loc' = [loc EXCEPT ![p] = NoLoc]
            /\ UNCHANGED tokens_issued
       ELSE /\ tokens_issued < MaxTokens  \* model bound
            /\ tokens_issued' = tokens_issued + 1
            /\ loc' = [loc EXCEPT ![p] =
                   [email |-> loc[p].email, now |-> loc[p].now,
                    recent_requests |-> loc[p].recent_requests,
                    reset_token |-> tokens_issued + 1,
                    expires_at |-> now + TokenLifetime]]
            /\ pc' = [pc EXCEPT ![p] = "forgot_delete_tokens"]
            /\ UNCHANGED <<req, response>>
    /\ UNCHANGED <<nonAuthVars, users, password_resets, password_reset_attempts, now,
                   resets_done>>

\* db.password_resets.delete_many({"email": email})
forgot_password_delete_tokens(p) ==
    /\ pc[p] = "forgot_delete_tokens"
    /\ password_resets' = SelectSeq(password_resets, LAMBDA d : d.email # loc[p].email)
    /\ pc' = [pc EXCEPT ![p] = "forgot_insert_token"]
    /\ UNCHANGED <<nonAuthVars, req, loc, response, users, password_reset_attempts, now,
                   tokens_issued, resets_done>>

\* db.password_resets.insert_one(...), the mail and the response.
forgot_password_insert_token(p) ==
    /\ pc[p] = "forgot_insert_token"
    /\ password_resets' = Append(password_resets,
           [email |-> loc[p].email, token |-> loc[p].reset_token,
            expires_at |-> loc[p].expires_at, used |-> FALSE])
    /\ response' = [response EXCEPT ![p] =
           [status |-> 200, remaining_attempts |-> Remaining(p)]]
    /\ pc' = [pc EXCEPT ![p] = "idle"]
    /\ req' = [req EXCEPT ![p] = NoReq]
    /\ loc' = [loc EXCEPT ![p] = NoLoc]
    /\ UNCHANGED <<nonAuthVars, users, password_reset_attempts, now, tokens_issued,
                   resets_done>>

\* db.password_resets.find_one({"token": ..., "used": False})
FindReset(token) ==
    LET hits == SelectSeq(password_resets, LAMBDA d : d.token = token /\ ~d.used)
    IN  IF hits = <<>> THEN <<>> ELSE <<hits[1]>>

\* What reset_password and verify_reset_token answer before any write: the
\* token is unknown or used, or it has expired.
TokenRejection(token) ==
    IF FindReset(token) = <<>>
    THEN <<[status |-> 400, detail |-> "Invalid or expired reset token"]>>
    ELSE IF now > FindReset(token)[1].expires_at
         THEN <<[status |-> 400, detail |-> "Reset token has expired"]>>
         ELSE <<>>

\* POST /auth/reset-password: the lookup of the token and the validation.
reset_password(p, token, new_password) ==
    /\ pc[p] = "idle"
    /\ IF TokenRejection(token) # <<>>
       THEN /\ response' = [response EXCEPT ![p] = TokenRejection(token)[1]]
            /\ UNCHANGED <<pc, req, loc>>
       ELSE IF Len(new_password) < MinPasswordLength
            THEN /\ response' = [response EXCEPT ![p] =
                        [status |-> 400,
                         detail |-> "Password must be at least 6 characters"]]
                 /\ UNCHANGED <<pc, req, loc>>
            ELSE /\ req' = [req EXCEPT ![p] =
                        [token |-> token, new_password |-> new_password]]
                 /\ loc' = [loc EXCEPT ![p] =
                        [reset_record |-> FindReset(token)[1],
                         hashed_password |-> hash_password(new_password)]]
                 /\ pc' = [pc EXCEPT ![p] = "reset_update_user"]
                 /\ response' = [response EXCEPT ![p] = NoResponse]
    /\ UNCHANGED <<nonAuthVars, authVars>>

\* update_one({"email": ...}, {"$set": {"hashed_password": ...}}) on the
\* first match.
SetHashedPassword(email, hashed) ==
    LET k == CHOOSE k \in 1..Len(users) :
                 /\ users[k].email = email
                 /\ \A j \in 1..(k - 1) : users[j].email # email
    IN  [users EXCEPT ![k].hashed_password = hashed]

\* db.users.update_one; modified_count is 0 when no user has the email (a
\* fresh bcrypt hash never equals the stored one).
reset_password_update_user(p) ==
    /\ pc[p] = "reset_update_user"
    /\ IF FindUser(loc[p].reset_record.email) = <<>>
       THEN /\ response' = [response EXCEPT ![p] =
                   [status |-> 400, detail |-> "Failed to update password"]]
            /\ pc' = [pc EXCEPT ![p] = "idle"]
            /\ req' = [req EXCEPT ![p] = NoReq]
            /\ loc' = [loc EXCEPT ![p] = NoLoc]
            /\ UNCHANGED users
       ELSE /\ users' = SetHashedPassword(loc[p].reset_record.email,
                                          loc[p].hashed_password)
            /\ pc' = [pc EXCEPT ![p] = "reset_mark_used"]
            /\ UNCHANGED <<req, loc, response>>
    /\ UNCHANGED <<nonAuthVars, password_resets, password_reset_attempts, now,
                   tokens_issued, resets_done>>

\* update_one({"token": ...}, {"$set": {"used": True}}) on the first match.
MarkUsed(token) ==
    IF \E k \in 1..Len(password_resets) : password_resets[k].token = token
    THEN LET k == CHOOSE k \in 1..Len(password_resets) :
                      /\ password_resets[k].token = token
                      /\ \A j \in 1..(k - 1) : password_resets[j].token # token
         IN  [password_resets EXCEPT ![k].used = TRUE]
    ELSE password_resets

\* The token is marked used and the success is returned.
reset_password_mark_used(p) ==
    /\ pc[p] = "reset_mark_used"
    /\ password_resets' = MarkUsed(req[p].token)
    /\ resets_done' = Append(resets_done,
           [token |-> req[p].token, email |-> loc[p].reset_record.email,
            new_password |-> req[p].new_password])
    /\ response' = [response EXCEPT ![p] =
           [status |-> 200, message |-> "Password has been reset successfully"]]
    /\ pc' = [pc EXCEPT ![p] = "idle"]
    /\ req' = [req EXCEPT ![p] = NoReq]
    /\ loc' = [loc EXCEPT ![p] = NoLoc]
    /\ UNCHANGED <<nonAuthVars, users, password_reset_attempts, now, tokens_issued>>

\* GET /auth/verify-reset-token
verify_reset_token(p, token) ==
    /\ pc[p] = "idle"
    /\ response' = [response EXCEPT ![p] =
           IF TokenRejection(token) # <<>>
           THEN TokenRejection(token)[1]
           ELSE [status |-> 200, valid |-> TRUE, email |-> FindReset(token)[1].email]]
    /\ UNCHANGED <<nonAuthVars, pc, req, loc, authVars>>

\* Time passes.
Tick ==
    /\ now < MaxTime  \* model bound
    /\ now' = now + TickSeconds
    /\ UNCHANGED <<nonAuthVars, pc, req, loc, response, users, password_resets,
                   password_reset_attempts, tokens_issued, resets_done>>

\* ------------------------------------------------------------- challenge routes
\* The badges and the premium content with the number of completed days
\* that earns them, in the order the code tests them.
BadgeAt == << <<"communicator_novice", 1>>, <<"steady_speaker", 3>>,
              <<"relationship_builder", 5>>, <<"communication_master", 7>> >>
PREMIUM_CONTENT == << <<"exclusive_tips", 3>>, <<"workbook_pdf", 5>>,
                      <<"master_guide", 7>> >>

\* The last day of a challenge.
LastDay == 7

ChallengeArchetypes == { driver, <<"D", "r", "i", "v", "e", "r">>, <<"f", "o", "o">> }
Days == 0..(LastDay + 1)
Reflections == {"", "note"}
ConcReflections == {""}

\* The model of the language model behind start_challenge: it answers with
\* a JSON array, or the call or json.loads fails.
ChallengeReplies == {"days", "failure"}

Contains(seq, x) == \E k \in 1..Len(seq) : seq[k] = x

\* The names of table whose threshold n reaches and that have is missing,
\* in table order.
RECURSIVE Newly(_, _, _)
Newly(table, have, n) ==
    IF table = <<>> THEN <<>>
    ELSE IF n >= table[1][2] /\ ~Contains(have, table[1][1])
         THEN <<table[1][1]>> \o Newly(Tail(table), have, n)
         ELSE Newly(Tail(table), have, n)

\* db.challenges.find_one({"user_id": ..., "status": "active"})
FindActive(u) ==
    LET hits == SelectSeq(challenges, LAMBDA c : c.user_id = u /\ c.status = "active")
    IN  IF hits = <<>> THEN <<>> ELSE <<hits[1]>>

\* db.challenges.find_one({"challenge_id": ..., "user_id": ...})
FindChallenge(cid, u) ==
    LET hits == SelectSeq(challenges, LAMBDA c : c.challenge_id = cid /\ c.user_id = u)
    IN  IF hits = <<>> THEN <<>> ELSE <<hits[1]>>

\* POST /challenge/start: the archetype check and the lookup of an active
\* challenge of the caller.
start_challenge(p, u, archetype) ==
    /\ pc[p] = "idle"
    /\ Len(challenges)
          + Cardinality({q \in Procs : pc[q] \in {"challenge_send_message",
                                                 "challenge_insert"}})
          < MaxChallenges  \* model bound
    /\ IF ~Contains(ARCHETYPE_ORDER, lower(archetype))
       THEN /\ response' = [response EXCEPT ![p] =
                   [status |-> 400, detail |-> "Invalid archetype"]]
            /\ UNCHANGED <<pc, req>>
       ELSE IF FindActive(u) # <<>>
            THEN /\ response' = [response EXCEPT ![p] =
                        [status |-> 200,
                         body |-> [status |-> "already_active",
                                   challenge |-> FindActive(u)[1]]]]
                 /\ UNCHANGED <<pc, req>>
            ELSE /\ req' = [req EXCEPT ![p] =
                        [user_id |-> u, archetype |-> lower(archetype)]]
                 /\ pc' = [pc EXCEPT ![p] = "challenge_send_message"]
                 /\ response' = [response EXCEPT ![p] = NoResponse]
    /\ UNCHANGED <<nonChallengeVars, loc, challenges>>

\* chat.send_message and json.loads; a failure is answered 500.
start_challenge_send_message(p, reply) ==
    /\ pc[p] = "challenge_send_message"
    /\ IF reply = "failure"
       THEN /\ response' = [response EXCEPT ![p] =
                   [status |-> 500, detail |-> "Failed to create challenge"]]
            /\ pc' = [pc EXCEPT ![p] = "idle"]
            /\ req' = [req EXCEPT ![p] = NoReq]
       ELSE /\ pc' = [pc EXCEPT ![p] = "challenge_insert"]
            /\ UNCHANGED <<req, response>>
    /\ UNCHANGED <<nonChallengeVars, loc, challenges>>

\* The challenge document of start_challenge; the uuid is a fresh id.
NewChallenge(p) ==
    [challenge_id |-> Len(challenges) + 1, user_id |-> req[p].user_id,
     archetype |-> req[p].archetype, status |-> "active", current_day |-> 1,
     completed_days |-> <<>>, badges_earned |-> <<>>, content_unlocked |-> <<>>,
     reflections |-> {}]

\* db.challenges.insert_one(challenge)
start_challenge_insert(p) ==
    /\ pc[p] = "challenge_insert"
    /\ challenges' = Append(challenges, NewChallenge(p))
    /\ response' = [response EXCEPT ![p] =
           [status |-> 200,
            body |-> [status |-> "started", challenge |-> NewChallenge(p)]]]
    /\ pc' = [pc EXCEPT ![p] = "idle"]
    /\ req' = [req EXCEPT ![p] = NoReq]
    /\ UNCHANGED <<nonChallengeVars, loc>>

\* new_current_day = day + 1 if day < 7 else 7
NextDay(day) == IF day < LastDay THEN day + 1 ELSE LastDay

\* status = "completed" if len(completed_days) >= 7 else "active"
StatusAfter(completed_days) ==
    IF Len(completed_days) >= LastDay THEN "completed" ELSE "active"

\* update_data of complete_challenge_day for a challenge as it was read.
UpdateData(challenge, day, reflection) ==
    LET completed_days == Append(challenge.completed_days, day)
    IN  [completed_days |-> completed_days,
         current_day |-> NextDay(day),
         badges_earned |-> challenge.badges_earned
             \o Newly(BadgeAt, challenge.badges_earned, Len(completed_days)),
         content_unlocked |-> challenge.content_unlocked
             \o Newly(PREMIUM_CONTENT, challenge.content_unlocked, Len(completed_days)),
         status |-> StatusAfter(completed_days),
         reflections |-> IF reflection # ""
                         THEN challenge.reflections \cup {day}
                         ELSE challenge.reflections]

\* What complete_challenge_day answers without writing, for a challenge
\* that was found.
DayRejection(challenge, day) ==
    IF challenge.status # "active"
    THEN <<[status |-> 400, detail |-> "Challenge is not active"]>>
    ELSE IF Contains(challenge.completed_days, day)
         THEN <<[status |-> 200,
                  body |-> [status |-> "already_completed", day |-> day]]>>
         ELSE IF day # challenge.current_day
              THEN <<[status |-> 400, detail |-> "Must complete the current day first"]>>
              ELSE <<>>

\* POST /challenge/complete-day/{challenge_id}: the lookup, the checks and
\* the computation of update_data.
complete_challenge_day(p, u, cid, day, reflection) ==
    /\ pc[p] = "idle"
    /\ IF FindChallenge(cid, u) = <<>>
       THEN /\ response' = [response EXCEPT ![p] =
                   [status |-> 404, detail |-> "Challenge not found"]]
            /\ UNCHANGED <<pc, req, loc>>
       ELSE IF DayRejection(FindChallenge(cid, u)[1], day) # <<>>
            THEN /\ response' = [response EXCEPT ![p] =
                        DayRejection(FindChallenge(cid, u)[1], day)[1]]
                 /\ UNCHANGED <<pc, req, loc>>
            ELSE /\ req' = [req EXCEPT ![p] = [challenge_id |-> cid, day |-> day]]
                 /\ loc' = [loc EXCEPT ![p] =
                        [update_data |-> UpdateData(FindChallenge(cid, u)[1], day,
                                                    reflection),
                         new_badges |-> Newly(BadgeAt,
                             FindChallenge(cid, u)[1].badges_earned,
                             Len(FindChallenge(cid, u)[1].completed_days) + 1),
                         new_content |-> Newly(PREMIUM_CONTENT,
                             FindChallenge(cid, u)[1].content_unlocked,
                             Len(FindChallenge(cid, u)[1].completed_days) + 1)]]
                 /\ pc' = [pc EXCEPT ![p] = "complete_day_update"]
                 /\ response' = [response EXCEPT ![p] = NoResponse]
    /\ UNCHANGED <<nonChallengeVars, challenges>>

\* update_one({"challenge_id": ...}, {"$set": update_data}) on the first match.
SetChallenge(cid, update_data) ==
    [k \in 1..Len(challenges) |->
        IF challenges[k].challenge_id = cid
        THEN [challenge_id |-> cid, user_id |-> challenges[k].user_id,
              archetype |-> challenges[k].archetype,
              status |-> update_data.status,
              current_day |-> update_data.current_day,
              completed_days |-> update_data.completed_days,
              badges_earned |-> update_data.badges_earned,
              content_unlocked |-> update_data.content_unlocked,
              reflections |-> update_data.reflections]
        ELSE challenges[k]]

\* db.challenges.update_one and the response.
complete_challenge_day_update(p) ==
    /\ pc[p] = "complete_day_update"
    /\ challenges' = SetChallenge(req[p].challenge_id, loc[p].update_data)
    /\ response' = [response EXCEPT ![p] =
           [status |-> 200,
            body |-> [status |-> "completed", day |-> req[p].day,
                      new_badges |-> loc[p].new_badges,
                      new_content |-> loc[p].new_content,
                      challenge_complete |-> loc[p].update_data.status = "completed",
                      next_day |-> IF loc[p].update_data.status = "active"
                                   THEN loc[p].update_data.current_day ELSE 0]]]
    /\ pc' = [pc EXCEPT ![p] = "idle"]
    /\ req' = [req EXCEPT ![p] = NoReq]
    /\ loc' = [loc EXCEPT ![p] = NoLoc]
    /\ UNCHANGED nonChallengeVars

\* ------------------------------------------------------------- team routes
\* user["email"] of a signed-in user, and the addresses an owner invites.
EmailOf(u) == u \o "@example.com"
InviteEmails == { EmailOf(u) : u \in Users } \cup {"guest@example.com"}

PackTypes == {"family", "team", "class"}
RequestedMax == {0, 2, 7, 11}

\* max_allowed = 6 if data.pack_type == "family" else 10
MaxAllowed(pack_type) == IF pack_type = "family" THEN 6 ELSE 10

\* if data.max_members > max_allowed: data.max_members = max_allowed
CappedMax(pack_type, max_members) ==
    IF max_members > MaxAllowed(pack_type) THEN MaxAllowed(pack_type) ELSE max_members

Member(u, role) == [user_id |-> u, email |-> EmailOf(u), role |-> role]

\* POST /team/create-pack.  The uuid of the pack is a fresh id.
create_team_pack(p, u, pack_type, max_members) ==
    /\ pc[p] = "idle"
    /\ IF pack_type \notin {"family", "team"}
       THEN /\ response' = [response EXCEPT ![p] =
                   [status |-> 400, detail |-> "Pack type must be 'family' or 'team'"]]
            /\ UNCHANGED team_packs
       ELSE /\ Len(team_packs) < MaxTeamPacks  \* model bound
            /\ team_packs' = Append(team_packs,
                   [pack_id |-> Len(team_packs) + 1, pack_type |-> pack_type,
                    owner_id |-> u,
                    max_members |-> CappedMax(pack_type, max_members),
                    members |-> <<Member(u, "owner")>>])
            /\ response' = [response EXCEPT ![p] =
                   [status |-> 200, pack_id |-> Len(team_packs) + 1]]
    /\ UNCHANGED <<nonTeamVars, pc, req, loc, team_invites, accepted>>

\* db.team_packs.find_one({"pack_id": ...})
FindTeamPack(pack_id) ==
    LET hits == SelectSeq(team_packs, LAMBDA d : d.pack_id = pack_id)
    IN  IF hits = <<>> THEN <<>> ELSE <<hits[1]>>

\* db.team_invites.find_one({"invite_id": ...})
FindInvite(invite_id) ==
    LET hits == SelectSeq(team_invites, LAMBDA d : d.invite_id = invite_id)
    IN  IF hits = <<>> THEN <<>> ELSE <<hits[1]>>

\* len(pack["members"]) >= pack["max_members"]
IsFull(pack) == Len(pack.members) >= pack.max_members

\* POST /team/invite: the lookup of the pack and the checks.
invite_team_member(p, u, pack_id, member_email) ==
    /\ pc[p] = "idle"
    /\ Len(team_invites) + Cardinality({q \in Procs : pc[q] = "invite_insert"})
          < MaxInvites  \* model bound
    /\ LET found == FindTeamPack(pack_id)
           rejection ==
               IF found = <<>> THEN <<[status |-> 404, detail |-> "Pack not found"]>>
               ELSE IF found[1].owner_id # u
                    THEN <<[status |-> 403, detail |-> "Only owner can invite members"]>>
               ELSE IF IsFull(found[1])
                    THEN <<[status |-> 400, detail |-> "Pack is full"]>>
               ELSE IF \E k \in 1..Len(found[1].members) :
                           found[1].members[k].email = member_email
                    THEN <<[status |-> 400, detail |-> "Already a member of this pack"]>>
               ELSE <<>>
       IN  IF rejection # <<>>
           THEN /\ response' = [response EXCEPT ![p] = rejection[1]]
                /\ UNCHANGED <<pc, req>>
           ELSE /\ req' = [req EXCEPT ![p] =
                       [user_id |-> u, pack_id |-> pack_id, member_email |-> member_email]]
                /\ pc' = [pc EXCEPT ![p] = "invite_insert"]
                /\ response' = [response EXCEPT ![p] = NoResponse]
    /\ UNCHANGED <<nonTeamVars, loc, teamVars>>

\* db.team_invites.insert_one(invite), the mail and the response.  The uuid
\* of the invite is a fresh id.
invite_team_member_insert(p) ==
    /\ pc[p] = "invite_insert"
    /\ team_invites' = Append(team_invites,
           [invite_id |-> Len(team_invites) + 1, pack_id |-> req[p].pack_id,
            email |-> req[p].member_email, invited_by |-> req[p].user_id,
            status |-> "pending"])
    /\ response' = [response EXCEPT ![p] =
           [status |-> 200, invite_id |-> Len(team_invites) + 1]]
    /\ pc' = [pc EXCEPT ![p] = "idle"]
    /\ req' = [req EXCEPT ![p] = NoReq]
    /\ UNCHANGED <<nonTeamVars, loc, team_packs, accepted>>

\* POST /team/join/{invite_id}: the lookup of the invite.
join_team_pack(p, u, invite_id) ==
    /\ pc[p] = "idle"
    /\ IF FindInvite(invite_id) = <<>>
       THEN /\ response' = [response EXCEPT ![p] =
                   [status |-> 404, detail |-> "Invite not found"]]
            /\ UNCHANGED <<pc, req, loc>>
       ELSE IF FindInvite(invite_id)[1].status # "pending"
            THEN /\ response' = [response EXCEPT ![p] =
                        [status |-> 400, detail |-> "Invite already used or expired"]]
                 /\ UNCHANGED <<pc, req, loc>>
            ELSE /\ req' = [req EXCEPT ![p] = [user_id |-> u, invite_id |-> invite_id]]
                 /\ loc' = [loc EXCEPT ![p] = [invite |-> FindInvite(invite_id)[1]]]
                 /\ pc' = [pc EXCEPT ![p] = "join_find_pack"]
                 /\ response' = [response EXCEPT ![p] = NoResponse]
    /\ UNCHANGED <<nonTeamVars, teamVars>>

\* The lookup of the invite's pack and the test for a full pack.
join_team_pack_find_pack(p) ==
    /\ pc[p] = "join_find_pack"
    /\ LET found == FindTeamPack(loc[p].invite.pack_id)
       IN  IF found = <<>> \/ IsFull(found[1])
           THEN /\ response' = [response EXCEPT ![p] =
                       IF found = <<>>
                       THEN [status |-> 404, detail |-> "Pack not found"]
                       ELSE [status |-> 400, detail |-> "Pack is full"]]
                /\ pc' = [pc EXCEPT ![p] = "idle"]
                /\ req' = [req EXCEPT ![p] = NoReq]
                /\ loc' = [loc EXCEPT ![p] = NoLoc]
           ELSE /\ pc' = [pc EXCEPT ![p] = "join_push_member"]
                /\ UNCHANGED <<req, loc, response>>
    /\ UNCHANGED <<nonTeamVars, teamVars>>

\* update_one({"pack_id": ...}, {"$push": {"members": new_member}})
PushMember(pack_id, new_member) ==
    [k \in 1..Len(team_packs) |->
        IF team_packs[k].pack_id = pack_id
        THEN [team_packs[k] EXCEPT !.members = Append(@, new_member)]
        ELSE team_packs[k]]

join_team_pack_push_member(p) ==
    /\ pc[p] = "join_push_member"
    /\ team_packs' = PushMember(loc[p].invite.pack_id, Member(req[p].user_id, "member"))
    /\ pc' = [pc EXCEPT ![p] = "join_accept_invite"]
    /\ UNCHANGED <<nonTeamVars, req, loc, response, team_invites, accepted>>

\* update_one({"invite_id": ...}, {"$set": {"status": "accepted", ...}})
AcceptInvite(invite_id) ==
    [k \in 1..Len(team_invites) |->
        IF team_invites[k].invite_id = invite_id
        THEN [team_invites[k] EXCEPT !.status = "accepted"]
        ELSE team_invites[k]]

join_team_pack_accept_invite(p) ==
    /\ pc[p] = "join_accept_invite"
    /\ team_invites' = AcceptInvite(req[p].invite_id)
    /\ accepted' = Append(accepted, req[p].invite_id)
    /\ response' = [response EXCEPT ![p] =
           [status |-> 200, detail |-> "joined", pack_id |-> loc[p].invite.pack_id]]
    /\ pc' = [pc EXCEPT ![p] = "idle"]
    /\ req' = [req EXCEPT ![p] = NoReq]
    /\ loc' = [loc EXCEPT ![p] = NoLoc]
    /\ UNCHANGED <<nonTeamVars, team_packs>>

IsMember(pack, u) == \E k \in 1..Len(pack.members) : pack.members[k].user_id = u

\* POST /team/join-link/{pack_id}: the lookup of the pack and the checks.
join_team_via_link(p, u, pack_id) ==
    /\ pc[p] = "idle"
    /\ LET found == FindTeamPack(pack_id)
       IN  IF found = <<>> \/ IsFull(found[1]) \/ IsMember(found[1], u)
           THEN /\ response' = [response EXCEPT ![p] =
                       IF found = <<>>
                       THEN [status |-> 404, detail |-> "Pack not found"]
                       ELSE IF IsFull(found[1])
                            THEN [status |-> 400, detail |-> "Pack is full"]
                            ELSE [status |-> 200, detail |-> "already_member",
                                  pack_id |-> pack_id]]
                /\ UNCHANGED <<pc, req>>
           ELSE /\ req' = [req EXCEPT ![p] = [user_id |-> u, pack_id |-> pack_id]]
                /\ pc' = [pc EXCEPT ![p] = "link_push_member"]
                /\ response' = [response EXCEPT ![p] = NoResponse]
    /\ UNCHANGED <<nonTeamVars, loc, teamVars>>

join_team_via_link_push_member(p) ==
    /\ pc[p] = "link_push_member"
    /\ team_packs' = PushMember(req[p].pack_id, Member(req[p].user_id, "member"))
    /\ response' = [response EXCEPT ![p] =
           [status |-> 200, detail |-> "joined", pack_id |-> req[p].pack_id]]
    /\ pc' = [pc EXCEPT ![p] = "idle"]
    /\ req' = [req EXCEPT ![p] = NoReq]
    /\ UNCHANGED <<nonTeamVars, loc, team_invites, accepted>>

\* DELETE /team/leave/{pack_id}: the lookup of the pack and the owner test.
leave_team_pack(p, u, pack_id) ==
    /\ pc[p] = "idle"
    /\ LET found == FindTeamPack(pack_id)
       IN  IF found = <<>> \/ found[1].owner_id = u
           THEN /\ response' = [response EXCEPT ![p] =
                       IF found = <<>>
                       THEN [status |-> 404, detail |-> "Pack not found"]
                       ELSE [status |-> 400, detail |-> "Owner cannot leave"]]
                /\ UNCHANGED <<pc, req>>
           ELSE /\ req' = [req EXCEPT ![p] = [user_id |-> u, pack_id |-> pack_id]]
                /\ pc' = [pc EXCEPT ![p] = "leave_pull_member"]
                /\ response' = [response EXCEPT ![p] = NoResponse]
    /\ UNCHANGED <<nonTeamVars, loc, teamVars>>

\* update_one({"pack_id": ...}, {"$pull": {"members": {"user_id": ...}}})
PullMember(pack_id, u) ==
    [k \in 1..Len(team_packs) |->
        IF team_packs[k].pack_id = pack_id
        THEN [team_packs[k] EXCEPT
                 !.members = SelectSeq(@, LAMBDA m : m.user_id # u)]
        ELSE team_packs[k]]

leave_team_pack_pull_member(p) ==
    /\ pc[p] = "leave_pull_member"
    /\ team_packs' = PullMember(req[p].pack_id, req[p].user_id)
    /\ response' = [response EXCEPT ![p] =
           [status |-> 200, detail |-> "left", pack_id |-> req[p].pack_id]]
    /\ pc' = [pc EXCEPT ![p] = "idle"]
    /\ req' = [req EXCEPT ![p] = NoReq]
    /\ UNCHANGED <<nonTeamVars, loc, team_invites, accepted>>

\* ------------------------------------------------------------- specifications
\* Concurrent requests against the shared database.
Next ==
    \/ \E u \in Users, s \in ConcSeries : start_quiz(u, s)
    \/ \E p \in Procs :
          /\ pc[p] = "idle"
          /\ \E u \in Users, aid \in 1..MaxAttempts,
                answers \in SeqsUpTo(ConcAnswerChoices, MaxConcAnswers) :
                    submit_quiz(p, u, aid, answers)
    \/ \E p \in Procs : submit_quiz_score_answer(p)
    \/ \E p \in Procs : submit_quiz_insert_result(p)
    \/ \E p \in Procs : submit_quiz_update_attempt(p)
    \/ \E qid \in AdminQuestionIds, flag \in BOOLEAN : update_question(qid, flag)
    \/ \E qid \in AdminQuestionIds : delete_question(qid)

Spec == Init /\ [][Next]_vars

\* One submission at a time over the seeded question bank, with the full
\* range of answer sequences.
NextScore ==
    \/ \E u \in Users, s \in Series : quiz_attempts = <<>> /\ start_quiz(u, s)
    \/ /\ results = <<>>
       /\ pc[1] = "idle"
       /\ \E u \in Users, aid \in 1..MaxAttempts,
             answers \in SeqsUpTo(AnswerChoices, MaxAnswers) :
                 submit_quiz(1, u, aid, answers)
    \/ submit_quiz_score_answer(1)
    \/ submit_quiz_insert_result(1)
    \/ submit_quiz_update_attempt(1)

SpecScore == Init /\ [][NextScore]_vars

\* Payments, reports and couples packs over the results of submissions:
\* the requests of the users are handled one at a time in the slot Caller,
\* the callbacks of the payment provider arrive beside them in the slot
\* Provider.
Caller == 1
Provider == 2

\* The ids a request can name: those of the documents stored so far, which a
\* client has been given, and one that no document ever gets (ids are
\* random, so a client cannot name a document before it is created).
NamedResults ==
    { results[k].result_id : k \in 1..Len(results) } \cup {MaxResults + 1}
NamedPayments ==
    { payments[k].payment_id : k \in 1..Len(payments) } \cup {MaxPayments + 1}

NextPay ==
    \/ \E u \in Users, s \in ConcSeries : start_quiz(u, s)
    \/ \E p \in {Caller} :
          /\ pc[p] = "idle"
          /\ \E u \in Users, aid \in 1..MaxAttempts, answers \in PayAnswers :
                 submit_quiz(p, u, aid, answers)
    \/ \E p \in {Caller} : submit_quiz_score_answer(p)
    \/ \E p \in {Caller} : submit_quiz_insert_result(p)
    \/ \E p \in {Caller} : submit_quiz_update_attempt(p)
    \/ \E p \in {Caller}, u \in Users, rid \in 1..MaxResults : get_result(p, u, rid)
    \/ \E p \in {Caller}, u \in Users, rid \in NamedResults, product_type \in ProductTypes :
          create_payment(p, u, rid, product_type)
    \/ \E p \in {Provider}, token_ok \in BOOLEAN, external_id \in NamedPayments,
          status \in {"PAID", "EXPIRED"} :
             payment_webhook(p, token_ok, external_id, status)
    \/ \E p \in {Provider} : payment_webhook_update_payment(p)
    \/ \E p \in {Provider} : payment_webhook_find_payment(p)
    \/ \E p \in {Provider} : payment_webhook_update_result(p)
    \/ \E p \in {Caller}, u \in Users, pid \in 1..MaxPayments : simulate_payment(p, u, pid)
    \/ \E p \in {Caller} : simulate_payment_update_payment(p)
    \/ \E p \in {Caller} : simulate_payment_update_result(p)
    \/ \E p \in {Caller}, u \in Users, rid \in 1..MaxResults, language \in ReportLanguages :
          generate_report(p, u, rid, language)
    \/ \E p \in {Caller} : generate_report_find_existing(p)
    \/ \E p \in {Caller} : generate_report_send_message(p)
    \/ \E p \in {Caller} : generate_report_insert(p)

SpecPay == Init /\ [][NextPay]_vars

\* Every route that reads or writes a result, one request at a time: the
\* results of submissions are paid for, reported on and linked to couples
\* packs.
NextLink ==
    \/ \E u \in Users, s \in ConcSeries : start_quiz(u, s)
    \/ /\ pc[Caller] = "idle"
       /\ \E u \in Users, aid \in 1..MaxAttempts, answers \in PayAnswers :
              submit_quiz(Caller, u, aid, answers)
    \/ submit_quiz_score_answer(Caller)
    \/ submit_quiz_insert_result(Caller)
    \/ submit_quiz_update_attempt(Caller)
    \/ \E u \in Users, rid \in NamedResults, product_type \in ProductTypes :
          create_payment(Caller, u, rid, product_type)
    \/ \E token_ok \in BOOLEAN, external_id \in NamedPayments, status \in {"PAID", "EXPIRED"} :
          payment_webhook(Caller, token_ok, external_id, status)
    \/ payment_webhook_update_payment(Caller)
    \/ payment_webhook_find_payment(Caller)
    \/ payment_webhook_update_result(Caller)
    \/ \E u \in Users, pid \in 1..MaxPayments : simulate_payment(Caller, u, pid)
    \/ simulate_payment_update_payment(Caller)
    \/ simulate_payment_update_result(Caller)
    \/ \E u \in Users, rid \in 1..MaxResults, language \in ReportLanguages :
          generate_report(Caller, u, rid, language)
    \/ generate_report_find_existing(Caller)
    \/ generate_report_send_message(Caller)
    \/ generate_report_insert(Caller)
    \/ \E u \in Users : create_couples_pack(u)
    \/ \E u \in Users, pack_id \in 1..MaxPacks : join_couples_pack(Caller, u, pack_id)
    \/ join_couples_pack_update_pack(Caller)
    \/ \E u \in Users, pack_id \in 1..MaxPacks, rid \in 1..MaxResults :
          link_result_to_pack(Caller, u, pack_id, rid)
    \/ link_result_to_pack_find_result(Caller)
    \/ link_result_to_pack_update_pack(Caller)
    \/ link_result_to_pack_find_updated(Caller)
    \/ link_result_to_pack_complete(Caller)

SpecLink == Init /\ [][NextLink]_vars

\* The compatibility routes, called once by each slot with every name and
\* language.
NextCompat ==
    \/ \E p \in Procs :
          /\ req[p] = NoReq
          /\ \E arch1 \in CompatNames, arch2 \in CompatNames, language \in Languages :
                 get_compatibility_pair(p, arch1, arch2, language)
    \/ \E p \in Procs :
          /\ req[p] = NoReq
          /\ \E archetype \in CompatNames, language \in Languages :
                 get_compatibility_for_archetype(p, archetype, language)

SpecCompat == Init /\ [][NextCompat]_vars

\* The tokens a caller can name: those issued so far and one never issued.
NamedTokens == (1..tokens_issued) \cup {MaxTokens + 1}

\* The steps a forgot_password request takes after its first.
forgot_password_steps(p) ==
    \/ forgot_password_find_oldest(p)
    \/ forgot_password_record_attempt(p)
    \/ forgot_password_cleanup(p)
    \/ forgot_password_find_user(p)
    \/ forgot_password_delete_tokens(p)
    \/ forgot_password_insert_token(p)

\* Registration, reset and login, one request at a time.
NextReset ==
    \/ \E email \in RegisterEmails, password \in RegisterPasswords :
          register(Caller, email, password)
    \/ register_insert(Caller)
    \/ \E email \in RegisterEmails, password \in LoginPasswords :
          login(Caller, email, password)
    \/ \E email \in ForgotEmails : forgot_password(Caller, email)
    \/ forgot_password_steps(Caller)
    \/ \E token \in NamedTokens, new_password \in NewPasswords :
          reset_password(Caller, token, new_password)
    \/ reset_password_update_user(Caller)
    \/ reset_password_mark_used(Caller)
    \/ \E token \in NamedTokens : verify_reset_token(Caller, token)
    \/ Tick

SpecReset == Init /\ [][NextReset]_vars

\* Registration one at a time, forgot_password requests two at a time.
NextRate ==
    \/ \E email \in RegisterEmails, password \in RegisterPasswords :
          register(Caller, email, password)
    \/ register_insert(Caller)
    \/ \E p \in Procs, email \in ForgotEmails : forgot_password(p, email)
    \/ \E p \in Procs : forgot_password_steps(p)
    \/ Tick

SpecRate == Init /\ [][NextRate]_vars

\* Registration and forgot_password one at a time, reset_password and
\* verify_reset_token two at a time.
NextToken ==
    \/ \E email \in RegisterEmails, password \in RegisterPasswords :
          register(Caller, email, password)
    \/ register_insert(Caller)
    \/ \E email \in ForgotEmails : forgot_password(Caller, email)
    \/ forgot_password_steps(Caller)
    \/ \E p \in Procs, token \in NamedTokens, new_password \in NewPasswords :
          reset_password(p, token, new_password)
    \/ \E p \in Procs : reset_password_update_user(p)
    \/ \E p \in Procs : reset_password_mark_used(p)
    \/ \E p \in Procs, token \in NamedTokens : verify_reset_token(p, token)
    \/ Tick

SpecToken == Init /\ [][NextToken]_vars

\* The challenges a caller can name: those stored and one never assigned.
NamedChallenges ==
    { challenges[k].challenge_id : k \in 1..Len(challenges) } \cup {MaxChallenges + 1}

\* The challenge routes, one request at a time.
NextChallengeSeq ==
    \/ \E u \in Users, archetype \in ChallengeArchetypes :
          start_challenge(Caller, u, archetype)
    \/ \E reply \in ChallengeReplies : start_challenge_send_message(Caller, reply)
    \/ start_challenge_insert(Caller)
    \/ \E u \in Users, cid \in NamedChallenges, day \in Days, reflection \in Reflections :
          complete_challenge_day(Caller, u, cid, day, reflection)
    \/ complete_challenge_day_update(Caller)

SpecChallengeSeq == Init /\ [][NextChallengeSeq]_vars

\* The challenge routes, two requests at a time.
NextChallenge ==
    \/ \E p \in Procs, u \in Users, archetype \in ChallengeArchetypes :
          start_challenge(p, u, archetype)
    \/ \E p \in Procs, reply \in ChallengeReplies : start_challenge_send_message(p, reply)
    \/ \E p \in Procs : start_challenge_insert(p)
    \/ \E p \in Procs, u \in Users, cid \in NamedChallenges, day \in Days,
          reflection \in ConcReflections :
              complete_challenge_day(p, u, cid, day, reflection)
    \/ \E p \in Procs : complete_challenge_day_update(p)

SpecChallenge == Init /\ [][NextChallenge]_vars

\* Submissions one at a time; join_couples_pack and link_result_to_pack two
\* requests at a time.
NextCouples ==
    \/ \E u \in Users, s \in ConcSeries : start_quiz(u, s)
    \/ /\ pc[Caller] = "idle"
       /\ \E u \in Users, aid \in 1..MaxAttempts, answers \in PayAnswers :
              submit_quiz(Caller, u, aid, answers)
    \/ submit_quiz_score_answer(Caller)
    \/ submit_quiz_insert_result(Caller)
    \/ submit_quiz_update_attempt(Caller)
    \/ \E u \in Users : create_couples_pack(u)
    \/ \E p \in Procs, u \in Users, pack_id \in 1..MaxPacks : join_couples_pack(p, u, pack_id)
    \/ \E p \in Procs : join_couples_pack_update_pack(p)
    \/ \E p \in Procs, u \in Users, pack_id \in 1..MaxPacks, rid \in 1..MaxResults :
          link_result_to_pack(p, u, pack_id, rid)
    \/ \E p \in Procs : link_result_to_pack_find_result(p)
    \/ \E p \in Procs : link_result_to_pack_update_pack(p)
    \/ \E p \in Procs : link_result_to_pack_find_updated(p)
    \/ \E p \in Procs : link_result_to_pack_complete(p)

SpecCouples == Init /\ [][NextCouples]_vars

\* The invites a caller can name: those stored and one never assigned.
NamedInvites ==
    { team_invites[k].invite_id : k \in 1..Len(team_invites) } \cup {MaxInvites + 1}

\* The team routes, one request at a time.
NextTeamSeq ==
    \/ \E u \in Users, pack_type \in PackTypes, max_members \in RequestedMax :
          create_team_pack(Caller, u, pack_type, max_members)
    \/ \E u \in Users, pack_id \in 1..MaxTeamPacks, member_email \in InviteEmails :
          invite_team_member(Caller, u, pack_id, member_email)
    \/ invite_team_member_insert(Caller)
    \/ \E u \in Users, invite_id \in NamedInvites : join_team_pack(Caller, u, invite_id)
    \/ join_team_pack_find_pack(Caller)
    \/ join_team_pack_push_member(Caller)
    \/ join_team_pack_accept_invite(Caller)
    \/ \E u \in Users, pack_id \in 1..MaxTeamPacks : join_team_via_link(Caller, u, pack_id)
    \/ join_team_via_link_push_member(Caller)
    \/ \E u \in Users, pack_id \in 1..MaxTeamPacks : leave_team_pack(Caller, u, pack_id)
    \/ leave_team_pack_pull_member(Caller)

SpecTeamSeq == Init /\ [][NextTeamSeq]_vars

\* Packs are created, invited to and left one request at a time;
\* join_team_pack and join_team_via_link run two requests at a time.
NextTeam ==
    \/ \E u \in Users, pack_type \in PackTypes, max_members \in RequestedMax :
          create_team_pack(Caller, u, pack_type, max_members)
    \/ \E u \in Users, pack_id \in 1..MaxTeamPacks, member_email \in InviteEmails :
          invite_team_member(Caller, u, pack_id, member_email)
    \/ invite_team_member_insert(Caller)
    \/ \E p \in Procs, u \in Users, invite_id \in NamedInvites :
          join_team_pack(p, u, invite_id)
    \/ \E p \in Procs : join_team_pack_find_pack(p)
    \/ \E p \in Procs : join_team_pack_push_member(p)
    \/ \E p \in Procs : join_team_pack_accept_invite(p)
    \/ \E p \in Procs, u \in Users, pack_id \in 1..MaxTeamPacks :
          join_team_via_link(p, u, pack_id)
    \/ \E p \in Procs : join_team_via_link_push_member(p)
    \/ \E u \in Users, pack_id \in 1..MaxTeamPacks : leave_team_pack(Caller, u, pack_id)
    \/ leave_team_pack_pull_member(Caller)

SpecTeam == Init /\ [][NextTeam]_vars

\* ------------------------------------------------------------- vocabulary of the claims
\* The fixed order of the four archetypes.
FixedOrder == <<driver, spark, anchor, analyst>>
Archetypes == { FixedOrder[k] : k \in 1..Len(FixedOrder) }
Rank(a) == CHOOSE k \in 1..Len(FixedOrder) : FixedOrder[k] = a

\* The label s, lowercased, is the archetype name a (a is all lower case):
\* every character is that of a, or its capital.
IsLabelOf(s, a) ==
    /\ Len(s) = Len(a)
    /\ \A i \in 1..Len(a) :
          \/ s[i] = a[i]
          \/ \E k \in 1..Len(UpperLetters) : UpperLetters[k] = s[i] /\ LowerLetters[k] = a[i]

Recognized(answer) == \E a \in Archetypes : IsLabelOf(answer.selected_option, a)

\* The number of answers whose label, lowercased, is a.
NumLabelled(answers, a) ==
    Cardinality({ k \in 1..Len(answers) : IsLabelOf(answers[k].selected_option, a) })

\* The number of answers with a recognized label.
NumRecognized(answers) ==
    Cardinality({ k \in 1..Len(answers) : Recognized(answers[k]) })

\* The count a scores dict holds for archetype a.
ScoreOf(scores, a) == scores[CHOOSE k \in 1..Len(scores) : scores[k][1] = a][2]

\* The keys of a scores dict are the four archetypes, each once.
FourScores(scores) ==
    /\ Len(scores) = 4
    /\ { scores[k][1] : k \in 1..Len(scores) } = Archetypes

\* Archetype a ranks before b: a higher count, or the same count and an
\* earlier place in the fixed order.
RanksBefore(scores, a, b) ==
    \/ ScoreOf(scores, a) > ScoreOf(scores, b)
    \/ ScoreOf(scores, a) = ScoreOf(scores, b) /\ Rank(a) < Rank(b)

Stored == 1..Len(results)

\* ------------------------------------------------------------- claims
\* C1: primary_archetype is the archetype with the highest count and
\* secondary_archetype the one with the second highest, equal counts being
\* ordered driver, spark, anchor, analyst; the two are always different.
C1_PrimarySecondary ==
    \A k \in Stored :
        LET r == results[k] IN
        /\ FourScores(r.scores)
        /\ r.primary_archetype \in Archetypes
        /\ r.secondary_archetype \in Archetypes
        /\ r.primary_archetype # r.secondary_archetype
        /\ \A a \in Archetypes \ {r.primary_archetype} :
               RanksBefore(r.scores, r.primary_archetype, a)
        /\ \A a \in Archetypes \ {r.primary_archetype, r.secondary_archetype} :
               RanksBefore(r.scores, r.secondary_archetype, a)

\* Two driver and two spark answers were scored: primary driver, secondary spark.
C1_Witness ==
    \E k \in Stored :
        /\ ScoreOf(results[k].scores, driver) = 2
        /\ ScoreOf(results[k].scores, spark) = 2
        /\ ScoreOf(results[k].scores, anchor) = 0
        /\ ScoreOf(results[k].scores, analyst) = 0
        /\ results[k].primary_archetype = driver
        /\ results[k].secondary_archetype = spark

\* C3: scores[a] is the number of answers whose selected_option, lowercased,
\* is a; any other label counts nowhere and scoring still completes, so the
\* four counts sum to the number of answers with a recognized label.
C3_ScoresCountLabels ==
    \A k \in Stored :
        LET r == results[k]
            answers == passes[k].answers
        IN /\ FourScores(r.scores)
           /\ \A a \in Archetypes : ScoreOf(r.scores, a) = NumLabelled(answers, a)
           /\ ScoreOf(r.scores, driver) + ScoreOf(r.scores, spark)
                + ScoreOf(r.scores, anchor) + ScoreOf(r.scores, analyst)
                = NumRecognized(answers)

\* A submission with a capitalised label and an unrecognized one was scored.
C3_Witness ==
    \E k \in Stored :
        /\ \E i \in 1..Len(passes[k].answers) :
               /\ passes[k].answers[i].selected_option # driver
               /\ IsLabelOf(passes[k].answers[i].selected_option, driver)
        /\ \E i \in 1..Len(passes[k].answers) : ~Recognized(passes[k].answers[i])
        /\ ScoreOf(results[k].scores, driver) = 2
        /\ NumRecognized(passes[k].answers) < Len(passes[k].answers)

\* The answer at place i of a scoring pass qualifies as a stress marker:
\* its question was found with stress_marker_flag true and its label,
\* lowercased, is driver.
Qualifying(pass, i) ==
    /\ \E q \in pass.seen[i] : q.stress_marker_flag
    /\ IsLabelOf(pass.answers[i].selected_option, driver)

NumQualifying(pass) == Cardinality({ i \in 1..Len(pass.answers) : Qualifying(pass, i) })

\* C4: stress_flag is true exactly when the submission has 3 or more
\* qualifying stress-marker answers, whatever the series of the attempt.
C4_StressFlagThreshold ==
    \A k \in Stored : results[k].stress_flag = (NumQualifying(passes[k]) >= 3)

\* A couples attempt was scored with exactly three qualifying answers and
\* one that does not qualify, and is flagged.
C4_Witness ==
    \E k \in Stored :
        /\ results[k].series = "couples"
        /\ Len(passes[k].answers) = 4
        /\ NumQualifying(passes[k]) = 3
        /\ results[k].stress_flag = TRUE

MaxCount(scores) ==
    CHOOSE m \in { ScoreOf(scores, a) : a \in Archetypes } :
        \A a \in Archetypes : m >= ScoreOf(scores, a)

MinCount(scores) ==
    CHOOSE m \in { ScoreOf(scores, a) : a \in Archetypes } :
        \A a \in Archetypes : m <= ScoreOf(scores, a)

\* h hundredths is n / d rounded to two decimals: no hundredth is nearer.
IsRounded(h, n, d) ==
    /\ h \in Int
    /\ 2 * (100 * n - h * d) <= d
    /\ 2 * (h * d - 100 * n) <= d

\* C6 as claimed: the denominator of balance_index is the number of answers
\* that incremented an archetype count, and 1 when there are none.
C6_DenominatorScored ==
    \A k \in Stored :
        LET n == NumRecognized(passes[k].answers)
        IN IsRounded(results[k].balance_index,
                     MaxCount(results[k].scores) - MinCount(results[k].scores),
                     IF n = 0 THEN 1 ELSE n)

\* C6 as amended: balance_index is (max_count - min_count) divided by the
\* number of answers submitted, recognized or not (1 when there are none),
\* rounded to two decimals.
C6_DenominatorSubmitted ==
    \A k \in Stored :
        LET n == Len(passes[k].answers)
        IN IsRounded(results[k].balance_index,
                     MaxCount(results[k].scores) - MinCount(results[k].scores),
                     IF n = 0 THEN 1 ELSE n)

\* Two answers, one of them with an unrecognized label: 0.5, not 1.
C6_Witness ==
    \E k \in Stored :
        /\ Len(passes[k].answers) = 2
        /\ NumRecognized(passes[k].answers) = 1
        /\ results[k].balance_index = 50

\* C7: for a non-empty answer sequence, 0 <= balance_index <= 1.
C7_BalanceIndexBounds ==
    \A k \in Stored :
        Len(passes[k].answers) > 0 =>
            /\ results[k].balance_index >= 0
            /\ results[k].balance_index <= 100

\* Four answers, three of them driver and one with an unrecognized label,
\* were scored: 0.75.
C7_Witness ==
    \E k \in Stored :
        /\ Len(passes[k].answers) = 4
        /\ NumRecognized(passes[k].answers) = 3
        /\ ScoreOf(results[k].scores, driver) = 3
        /\ results[k].balance_index = 75

\* C2: two scoring passes over the same answers that found the same
\* question documents store the same scores, primary_archetype,
\* secondary_archetype, balance_index and stress_flag.
C2_Deterministic ==
    \A j \in Stored, k \in Stored :
        passes[j] = passes[k] =>
            /\ results[j].scores = results[k].scores
            /\ results[j].primary_archetype = results[k].primary_archetype
            /\ results[j].secondary_archetype = results[k].secondary_archetype
            /\ results[j].balance_index = results[k].balance_index
            /\ results[j].stress_flag = results[k].stress_flag

\* Two results come from passes over the same non-empty answers and the
\* same question documents.
C2_Witness ==
    \E j \in Stored, k \in Stored :
        /\ j # k
        /\ passes[j] = passes[k]
        /\ passes[j].answers # <<>>
        /\ ScoreOf(results[k].scores, driver) = 1

\* The step is one pass of the answer loop of slot p.
LoopPass(p) ==
    /\ pc[p] = "score_answer"
    /\ Len(loc'[p].seen) = Len(loc[p].seen) + 1

\* C5: an answer adds 1 to the stress-marker counter if and only if its
\* question exists with stress_marker_flag true and its label, lowercased,
\* is driver; every other answer leaves the counter as it is.
C5_StressMarkerCounted ==
    [][\A p \in Procs :
          /\ LoopPass(p) =>
                LET answer == req[p].answers[Len(loc[p].seen) + 1]
                    hit == /\ \E q \in questions : /\ q.question_id = answer.question_id
                                                   /\ q.stress_marker_flag
                           /\ IsLabelOf(answer.selected_option, driver)
                IN loc'[p].stress_markers =
                       loc[p].stress_markers + (IF hit THEN 1 ELSE 0)
          /\ (pc[p] = "score_answer" /\ ~LoopPass(p)) =>
                loc'[p].stress_markers = loc[p].stress_markers]_vars

\* One slot has counted a driver answer to a stress-flagged question, the
\* other has passed over a spark answer to one without counting it.
C5_Witness ==
    \E p \in Procs, o \in Procs :
        /\ pc[p] = "insert_result" /\ loc[p].stress_markers = 1
        /\ pc[o] = "insert_result" /\ loc[o].stress_markers = 0
        /\ Len(loc[o].seen) = 1
        /\ req[o].answers[1].selected_option = spark
        /\ \E q \in loc[o].seen[1] : q.stress_marker_flag

\* The result of a submission without answers.
ZeroAnswerResult(r) ==
    /\ r.scores = << <<driver, 0>>, <<spark, 0>>, <<anchor, 0>>, <<analyst, 0>> >>
    /\ r.balance_index = 0
    /\ r.stress_flag = FALSE
    /\ r.primary_archetype = driver
    /\ r.secondary_archetype = spark

\* C8: submit_quiz with zero answers on an existing attempt of the caller is
\* not rejected; it stores and returns a result with all four scores 0,
\* balance_index 0, stress_flag false, primary driver and secondary spark.
C8_ZeroAnswers ==
    [][\A p \in Procs :
          /\ \A u \in Users, aid \in 1..MaxAttempts :
                (FindAttempt(aid, u) # <<>> /\ submit_quiz(p, u, aid, <<>>)) =>
                    /\ response'[p].status # 404
                    /\ pc'[p] = "insert_result"
          /\ (pc[p] = "insert_result" /\ req[p].answers = <<>>
                /\ pc'[p] = "update_attempt") =>
                    /\ Len(results') = Len(results) + 1
                    /\ ZeroAnswerResult(results'[Len(results')])
                    /\ results'[Len(results')].attempt_id = req[p].attempt_id
                    /\ results'[Len(results')].user_id = req[p].user_id
          /\ (pc[p] = "update_attempt" /\ req[p].answers = <<>> /\ pc'[p] = "idle") =>
                    /\ response'[p].status = 200
                    /\ ZeroAnswerResult(response'[p])
                    /\ \E k \in Stored : /\ results[k].result_id = response'[p].result_id
                                         /\ ZeroAnswerResult(results[k])]_vars

\* A submission without answers has returned 200 and its result is stored.
C8_Witness ==
    \E k \in Stored :
        /\ passes[k].answers = <<>>
        /\ ZeroAnswerResult(results[k])
        /\ response[1].status = 200
        /\ response[1].result_id = results[k].result_id
        /\ response[1].primary_archetype = driver

\* C9: at most one QuizResult exists for each attempt_id.
C9_OneResultPerAttempt ==
    \A j \in Stored, k \in Stored :
        results[j].attempt_id = results[k].attempt_id => j = k

\* C10: the status of an attempt is in_progress or completed; start_quiz
\* creates it in_progress, and a completed attempt stays completed.
C10_AttemptLifecycle ==
    [][/\ \A k \in 1..Len(quiz_attempts') :
             quiz_attempts'[k].status \in {"in_progress", "completed"}
       /\ Len(quiz_attempts') >= Len(quiz_attempts)
       /\ \A k \in 1..Len(quiz_attempts) :
             /\ quiz_attempts'[k].attempt_id = quiz_attempts[k].attempt_id
             /\ quiz_attempts[k].status = "completed" =>
                    quiz_attempts'[k].status = "completed"
       /\ \A k \in (Len(quiz_attempts) + 1)..Len(quiz_attempts') :
             quiz_attempts'[k].status = "in_progress"]_vars

\* A completed attempt was submitted again and is still completed.
C10_Witness ==
    \E k \in 1..Len(quiz_attempts) :
        /\ quiz_attempts[k].status = "completed"
        /\ Cardinality({ j \in Stored :
               results[j].attempt_id = quiz_attempts[k].attempt_id }) = 2
        /\ \A p \in Procs : pc[p] = "idle"

\* C11: every stored result belongs to an attempt whose status is
\* completed; no state has a result for an in_progress attempt.
C11_ResultOnlyForCompleted ==
    \A k \in Stored :
        \E j \in 1..Len(quiz_attempts) :
            /\ quiz_attempts[j].attempt_id = results[k].attempt_id
            /\ quiz_attempts[j].status = "completed"

\* C12: once a submission has stored the answers of an attempt, no step
\* changes the answers stored for that attempt.
C12_AnswersImmutable ==
    [][\A k \in 1..Len(quiz_attempts) :
          quiz_attempts[k].status = "completed" =>
              quiz_attempts'[k].answers = quiz_attempts[k].answers]_vars

\* What a submission returns when it runs alone: r is the outcome of
\* scoring the answers of pass against the question documents of pass.
IsAloneOutcome(r, pass) ==
    /\ FourScores(r.scores)
    /\ \A a \in Archetypes : ScoreOf(r.scores, a) = NumLabelled(pass.answers, a)
    /\ r.primary_archetype \in Archetypes
    /\ r.secondary_archetype \in Archetypes \ {r.primary_archetype}
    /\ \A a \in Archetypes \ {r.primary_archetype} :
           RanksBefore(r.scores, r.primary_archetype, a)
    /\ \A a \in Archetypes \ {r.primary_archetype, r.secondary_archetype} :
           RanksBefore(r.scores, r.secondary_archetype, a)
    /\ IsRounded(r.balance_index, MaxCount(r.scores) - MinCount(r.scores),
                 IF pass.answers = <<>> THEN 1 ELSE Len(pass.answers))
    /\ r.stress_flag = (NumQualifying(pass) >= 3)

\* C20: submissions interleaved at their awaits do not interfere; each
\* returns the scores, primary_archetype, secondary_archetype, balance_index
\* and stress_flag that its own answers and the question documents it read
\* give when it runs alone.
C20_NoInterference ==
    [][\A p \in Procs :
          (pc[p] = "update_attempt" /\ pc'[p] = "idle") =>
              /\ response'[p].status = 200
              /\ IsAloneOutcome(response'[p],
                                [answers |-> req[p].answers, seen |-> loc[p].seen])]_vars

\* Slot 2 stored its result first and has not returned yet; slot 1, on
\* another attempt and with another answer, stored its result after that
\* and has returned it.
C20_Witness ==
    /\ pc[2] = "update_attempt"
    /\ loc[2].result_id = 1
    /\ ScoreOf(results[1].scores, spark) = 1
    /\ pc[1] = "idle"
    /\ response[1].status = 200
    /\ response[1].result_id = 2
    /\ ScoreOf(response[1].scores, driver) = 1
    /\ response[1].primary_archetype = driver
    /\ results[1].attempt_id # results[2].attempt_id

\* The name s, whatever its case, is one of the four archetypes.
IsArchetypeName(s) == \E a \in Archetypes : IsLabelOf(s, a)
ArchetypeNamed(s) == CHOOSE a \in Archetypes : IsLabelOf(s, a)

SupportedLanguages == {"id", "en"}

\* Slot p holds a pair lookup, or a ranking request, and its response.
IsPairCall(p) == "arch1" \in DOMAIN req[p]
IsRankingCall(p) == "archetype" \in DOMAIN req[p]

\* Slot p holds a pair lookup of two archetypes in a supported language.
IsValidPairCall(p) ==
    /\ IsPairCall(p)
    /\ IsArchetypeName(req[p].arch1)
    /\ IsArchetypeName(req[p].arch2)
    /\ req[p].language \in SupportedLanguages

\* C15: the lookups for (a,b) and for (b,a), in either language, return the
\* same compatibility_score and the same energy; (spark, anchor) and
\* (anchor, spark) both return 90 and harmonious.
C15_Symmetric ==
    \A p \in Procs, o \in Procs :
        (/\ IsValidPairCall(p)
         /\ IsValidPairCall(o)
         /\ ArchetypeNamed(req[p].arch1) = ArchetypeNamed(req[o].arch2)
         /\ ArchetypeNamed(req[p].arch2) = ArchetypeNamed(req[o].arch1)) =>
            /\ response[p].status = 200
            /\ response[o].status = 200
            /\ response[p].compatibility_score = response[o].compatibility_score
            /\ response[p].energy = response[o].energy
            /\ {ArchetypeNamed(req[p].arch1), ArchetypeNamed(req[p].arch2)}
                   = {spark, anchor} =>
                   /\ response[p].compatibility_score = 90
                   /\ response[p].energy = "harmonious"

\* Slot 1 looked up (spark, anchor) and slot 2 (anchor, spark), both in
\* English: each got 90 and harmonious with the text of its own key.
C15_Witness ==
    /\ IsPairCall(1) /\ IsPairCall(2)
    /\ req[1] = [arch1 |-> spark, arch2 |-> anchor, language |-> "en"]
    /\ req[2] = [arch1 |-> anchor, arch2 |-> spark, language |-> "en"]
    /\ response[1].compatibility_score = 90 /\ response[1].energy = "harmonious"
    /\ response[2].compatibility_score = 90 /\ response[2].energy = "harmonious"
    /\ response[1].title # response[2].title

\* C16: every pair of archetypes resolves to a record, in either argument
\* order and in both supported languages; not-found is not an outcome of a
\* lookup with valid names.
C16_Complete ==
    \A p \in Procs :
        IsValidPairCall(p) =>
            /\ response[p].status = 200
            /\ response[p].archetype1 = ArchetypeNamed(req[p].arch1)
            /\ response[p].archetype2 = ArchetypeNamed(req[p].arch2)
            /\ response[p].compatibility_score \in Nat
            /\ \A f \in {"title", "summary", "strengths", "challenges", "tips"} :
                   f \in DOMAIN response[p]

\* (analyst, spark) was resolved in Indonesian and (spark, analyst) in English.
C16_Witness ==
    /\ IsValidPairCall(1) /\ IsValidPairCall(2)
    /\ req[1].arch1 = analyst /\ req[1].arch2 = spark /\ req[1].language = "id"
    /\ req[2].arch1 = spark /\ req[2].arch2 = analyst /\ req[2].language = "en"
    /\ response[1].status = 200 /\ response[1].compatibility_score = 60
    /\ response[2].status = 200 /\ response[2].compatibility_score = 60

\* The keys of the matrix that the key built from a and b matches when
\* case is ignored.
KeysMatching(a, b) ==
    { k \in 1..Len(COMPATIBILITY_MATRIX) :
          IsLabelOf(a \o <<"_">> \o b, COMPATIBILITY_MATRIX[k][1]) }

\* The response r is the record data in the language lang.
IsRecordIn(r, data, lang) ==
    /\ r.status = 200
    /\ r.compatibility_score = data.compatibility_score
    /\ r.energy = data.energy
    /\ r.title = (IF lang = "id" THEN data.title_id ELSE data.title_en)
    /\ r.summary = (IF lang = "id" THEN data.summary_id ELSE data.summary_en)
    /\ r.strengths = (IF lang = "id" THEN data.strengths_id ELSE data.strengths_en)
    /\ r.challenges = (IF lang = "id" THEN data.challenges_id ELSE data.challenges_en)
    /\ r.tips = (IF lang = "id" THEN data.tips_id ELSE data.tips_en)

\* C17: the lookup for (a,b) returns the record stored under "a_b" when
\* that key exists, otherwise the one under "b_a", and answers not-found
\* only when neither exists; the names are matched whatever their case.
C17_KeyOrder ==
    \A p \in Procs :
        (IsPairCall(p) /\ req[p].language \in SupportedLanguages) =>
            LET forward == KeysMatching(req[p].arch1, req[p].arch2)
                reversed == KeysMatching(req[p].arch2, req[p].arch1)
            IN /\ forward # {} =>
                     \E k \in forward :
                         IsRecordIn(response[p], COMPATIBILITY_MATRIX[k][2], req[p].language)
               /\ (forward = {} /\ reversed # {}) =>
                     \E k \in reversed :
                         IsRecordIn(response[p], COMPATIBILITY_MATRIX[k][2], req[p].language)
               /\ (forward = {} /\ reversed = {}) <=> response[p].status = 404

\* (Spark, ANCHOR) got the English text stored under spark_anchor, and a
\* lookup with a name of no archetype got not-found.
C17_Witness ==
    /\ IsPairCall(1) /\ IsPairCall(2)
    /\ req[1].arch1 = <<"S", "p", "a", "r", "k">>
    /\ req[1].arch2 = <<"A", "N", "C", "H", "O", "R">>
    /\ req[1].language = "en"
    /\ response[1].status = 200
    /\ response[1].title =
           [key |-> <<"s", "p", "a", "r", "k", "_", "a", "n", "c", "h", "o", "r">>,
            field |-> "title_en"]
    /\ ~IsArchetypeName(req[2].arch1)
    /\ response[2].status = 404

\* C18: for a valid archetype the ranking has exactly four entries, one per
\* archetype, its own included, by compatibility_score descending and, for
\* equal scores, in the order driver, spark, anchor, analyst; the score of
\* each entry is the one the pair lookup returns.
C18_Ranking ==
    \A p \in Procs :
        (/\ IsRankingCall(p)
         /\ IsArchetypeName(req[p].archetype)
         /\ req[p].language \in SupportedLanguages) =>
            /\ response[p].status = 200
            /\ LET c == response[p].compatibilities
               IN /\ Len(c) = 4
                  /\ { c[i].with_archetype : i \in 1..Len(c) } = Archetypes
                  /\ \A i \in 1..Len(c), j \in 1..Len(c) :
                        i < j =>
                           \/ c[i].compatibility_score > c[j].compatibility_score
                           \/ /\ c[i].compatibility_score = c[j].compatibility_score
                              /\ Rank(c[i].with_archetype) < Rank(c[j].with_archetype)
                  /\ \A i \in 1..Len(c) :
                        c[i].compatibility_score =
                            PairResponse(req[p].archetype, c[i].with_archetype,
                                         req[p].language).compatibility_score

\* The ranking of analyst: analyst 75, then driver and anchor, both 70, in
\* that order, then spark 60.
C18_Witness ==
    \E p \in Procs :
        /\ IsRankingCall(p)
        /\ req[p].archetype = analyst
        /\ response[p].status = 200
        /\ [i \in 1..4 |-> response[p].compatibilities[i].with_archetype]
               = <<analyst, driver, anchor, spark>>
        /\ [i \in 1..4 |-> response[p].compatibilities[i].compatibility_score]
               = <<75, 70, 70, 60>>

\* C19: the pair lookup and the ranking, given a name that is none of the
\* four archetypes, fail with the invalid-argument error, which is not the
\* not-found error, and return no record.
C19_InvalidArgument ==
    \A p \in Procs :
        /\ (IsPairCall(p) /\ (~IsArchetypeName(req[p].arch1)
                                \/ ~IsArchetypeName(req[p].arch2))) =>
               response[p] = [status |-> 400]
        /\ (IsRankingCall(p) /\ ~IsArchetypeName(req[p].archetype)) =>
               response[p] = [status |-> 400]

\* The fields of a result other than is_paid.
CreatedFields ==
    {"result_id", "user_id", "attempt_id", "series", "scores", "primary_archetype",
     "secondary_archetype", "balance_index", "stress_flag"}

\* C13: once a result is stored no step changes any of its fields but
\* is_paid: result_id, user_id, attempt_id, series, scores,
\* primary_archetype, secondary_archetype, balance_index and stress_flag stay
\* as created through payment webhooks, simulated payments, report
\* generation and pack linking.
C13_OnlyIsPaidChanges ==
    [][/\ Len(results') >= Len(results)
       /\ \A k \in Stored :
             /\ DOMAIN results'[k] = DOMAIN results[k]
             /\ \A f \in CreatedFields : results'[k][f] = results[k][f]]_vars

\* A result with a driver answer has been paid for through a payment,
\* reported on and linked to a couples pack.
C13_Witness ==
    \E k \in Stored :
        /\ results[k].is_paid
        /\ ScoreOf(results[k].scores, driver) = 1
        /\ \E i \in 1..Len(payments) :
               payments[i].result_id = results[k].result_id /\ payments[i].status = "paid"
        /\ \E i \in 1..Len(reports) : reports[i].result_id = results[k].result_id
        /\ \E i \in 1..Len(couples_packs) :
               couples_packs[i].creator_result_id = results[k].result_id

\* The attempt aid, or the result rid, exists and belongs to someone other
\* than u.
IsAttemptOfAnother(aid, u) ==
    \E j \in 1..Len(quiz_attempts) :
        quiz_attempts[j].attempt_id = aid /\ quiz_attempts[j].user_id # u
IsResultOfAnother(rid, u) ==
    \E k \in Stored : results[k].result_id = rid /\ results[k].user_id # u

\* C14: every result carries the user_id of the attempt it was scored
\* from; submit_quiz on the attempt of another user answers not-found and
\* stores nothing; get_result on the result of another user answers
\* not-found.
C14_Ownership ==
    [][/\ \A k \in 1..Len(results') :
             \E j \in 1..Len(quiz_attempts') :
                 /\ quiz_attempts'[j].attempt_id = results'[k].attempt_id
                 /\ quiz_attempts'[j].user_id = results'[k].user_id
       /\ \A p \in Procs, u \in Users :
             /\ \A aid \in 1..MaxAttempts, answers \in PayAnswers :
                   (IsAttemptOfAnother(aid, u) /\ submit_quiz(p, u, aid, answers)) =>
                       /\ response'[p] = [status |-> 404]
                       /\ pc'[p] = "idle"
                       /\ results' = results
                       /\ quiz_attempts' = quiz_attempts
             /\ \A rid \in 1..MaxResults :
                   (IsResultOfAnother(rid, u) /\ get_result(p, u, rid)) =>
                       response'[p] = [status |-> 404]]_vars

\* Both users have a result of their own attempt; the last call was
\* answered not-found and one before it was given a result.
C14_Witness ==
    /\ Len(results) = 2
    /\ results[1].user_id # results[2].user_id
    /\ \A k \in Stored :
           \E j \in 1..Len(quiz_attempts) :
               /\ quiz_attempts[j].attempt_id = results[k].attempt_id
               /\ quiz_attempts[j].user_id = results[k].user_id
    /\ pc[Caller] = "idle"
    /\ response[Caller] = [status |-> 404]

\* The result rid is stored and its is_paid is b.
HasPaidFlag(rid, b) ==
    \E k \in Stored : results[k].result_id = rid /\ results[k].is_paid = b

\* C21: generate_report for a result whose is_paid is false answers 402 and
\* stores no report; a report is stored only for a result whose is_paid is
\* true at that moment, so every stored report belongs to a paid result.
C21_ReportGatedOnPayment ==
    [][/\ \A p \in Procs, u \in Users, rid \in 1..MaxResults, language \in ReportLanguages :
             (/\ \E k \in Stored : /\ results[k].result_id = rid
                                   /\ results[k].user_id = u
                                   /\ ~results[k].is_paid
              /\ generate_report(p, u, rid, language)) =>
                 /\ response'[p] = [status |-> 402]
                 /\ pc'[p] = "idle"
                 /\ reports' = reports
       /\ Len(reports') >= Len(reports)
       /\ \A i \in (Len(reports) + 1)..Len(reports') :
             HasPaidFlag(reports'[i].result_id, TRUE)
       /\ \A i \in 1..Len(reports) : HasPaidFlag(reports[i].result_id, TRUE)]_vars

\* A report is stored for a paid result, and generate_report for an unpaid
\* result of the same user was answered 402.
C21_Witness ==
    /\ \E i \in 1..Len(reports) : HasPaidFlag(reports[i].result_id, TRUE)
    /\ \E k \in Stored : ~results[k].is_paid
    /\ pc[Caller] = "idle"
    /\ response[Caller] = [status |-> 402]

\* The payment pid is stored and belongs to u.
IsPaymentOf(pid, u) ==
    \E i \in 1..Len(payments) : payments[i].payment_id = pid /\ payments[i].user_id = u

\* C22: when simulate_payment succeeds the payment is paid and the result
\* it names has is_paid true; no step takes a payment back from paid or a
\* result back from is_paid; simulate_payment on a payment id the caller
\* has no payment under answers 404 and changes no payment and no result.
C22_SimulatedPaymentSticks ==
    [][/\ \A p \in Procs :
             (pc[p] = "simulate_update_result" /\ pc'[p] = "idle") =>
                 /\ response'[p].status = 200
                 /\ \E i \in 1..Len(payments') :
                       /\ payments'[i].payment_id = req[p].payment_id
                       /\ payments'[i].user_id = req[p].user_id
                       /\ payments'[i].status = "paid"
                       /\ \A k \in 1..Len(results') :
                             results'[k].result_id = payments'[i].result_id =>
                                 results'[k].is_paid
       /\ \A i \in 1..Len(payments) :
             /\ Len(payments') >= i
             /\ payments'[i].payment_id = payments[i].payment_id
             /\ payments[i].status = "paid" => payments'[i].status = "paid"
       /\ \A k \in Stored :
             /\ Len(results') >= k
             /\ results'[k].result_id = results[k].result_id
             /\ results[k].is_paid => results'[k].is_paid
       /\ \A p \in Procs, u \in Users, pid \in 1..(MaxPayments + 1) :
             (~IsPaymentOf(pid, u) /\ simulate_payment(p, u, pid)) =>
                 /\ response'[p] = [status |-> 404]
                 /\ pc'[p] = "idle"
                 /\ payments' = payments
                 /\ results' = results]_vars

\* simulate_payment has just succeeded on a payment naming a stored result,
\* with no callback of the provider so far: the payment is paid and the
\* result is paid.
C22_Witness ==
    /\ \E i \in 1..Len(payments), k \in Stored :
           /\ payments[i].status = "paid"
           /\ results[k].result_id = payments[i].result_id
           /\ results[k].is_paid
    /\ pc[Caller] = "idle" /\ pc[Provider] = "idle"
    /\ response[Provider] = NoResponse
    /\ response[Caller] = [status |-> 200, detail |-> "success"]

\* C24: is_paid of a result is true only through a paid payment created by
\* the user who owns the result, whatever create_payment, simulate_payment
\* and payment_webhook calls the other users make; a webhook with a wrong
\* token or with a status other than PAID changes nothing.
C24_PaidByOwnerOnly ==
    [][/\ \A k \in 1..Len(results') :
             results'[k].is_paid =>
                 \E i \in 1..Len(payments') :
                     /\ payments'[i].result_id = results'[k].result_id
                     /\ payments'[i].user_id = results'[k].user_id
                     /\ payments'[i].status = "paid"
       /\ \A p \in Procs, token_ok \in BOOLEAN, external_id \in 1..(MaxPayments + 1),
             status \in {"PAID", "EXPIRED"} :
             ((~token_ok \/ status # "PAID")
                 /\ payment_webhook(p, token_ok, external_id, status)) =>
                     /\ payments' = payments
                     /\ results' = results
                     /\ pc'[p] = "idle"]_vars

\* Some reset_password for a token issued to this email has returned success.
HasReset(email) ==
    \E k \in 1..Len(resets_done) : resets_done[k].email = email

\* The new password of the last such reset_password.
LastResetPassword(email) ==
    LET k == CHOOSE k \in 1..Len(resets_done) :
                 /\ resets_done[k].email = email
                 /\ \A j \in (k + 1)..Len(resets_done) : resets_done[j].email # email
    IN  resets_done[k].new_password

\* C23: once reset_password has succeeded for a token issued to an email
\* with new password p, a login with that email succeeds with p and fails
\* with any other password, the previous one included.
C23_LoginAfterReset ==
    [][\A email \in RegisterEmails, password \in LoginPasswords :
          (HasReset(email) /\ login(Caller, email, password)) =>
              (response'[Caller].status = 200
                  <=> password = LastResetPassword(email))]_vars

\* The attempts recorded for an email with a timestamp in [start, start + window].
RecordedIn(email, start) ==
    Cardinality({ k \in 1..Len(password_reset_attempts) :
                    /\ password_reset_attempts[k].email = email
                    /\ password_reset_attempts[k].timestamp >= start
                    /\ password_reset_attempts[k].timestamp
                          <= start + FORGOT_PASSWORD_RATE_WINDOW })

\* The emails after normalisation, and the instants of the clock.
NormalEmails == { strip(lower(e)) : e \in ForgotEmails }
Instants == { t \in 0..MaxTime : t % TickSeconds = 0 }

\* C25: per email, no rate window holds more than FORGOT_PASSWORD_RATE_LIMIT
\* recorded forgot_password requests, also when requests are handled
\* concurrently; and the step that answers 429 records no attempt and
\* issues no token.
C25_RateLimit ==
    [][/\ \A email \in NormalEmails, start \in Instants :
              RecordedIn(email, start)' <= FORGOT_PASSWORD_RATE_LIMIT
       /\ \A p \in Procs :
              forgot_password_find_oldest(p) =>
                  /\ response'[p].status = 429
                  /\ password_reset_attempts' = password_reset_attempts
                  /\ password_resets' = password_resets
                  /\ tokens_issued' = tokens_issued]_vars

\* Some reset_password with this token has returned success.
HasSucceeded(token) ==
    \E k \in 1..Len(resets_done) : resets_done[k].token = token

\* C26: no token is behind two successful reset_password calls, also when
\* two calls interleave; once a reset_password with a token has succeeded,
\* reset_password and verify_reset_token with it are rejected; and when
\* forgot_password stores a new token for an email, no other unused token
\* of that email is left.
C26_TokenOnce ==
    [][/\ \A i, j \in 1..Len(resets_done') :
              i # j => resets_done'[i].token # resets_done'[j].token
       /\ \A p \in Procs, token \in 1..MaxTokens :
              HasSucceeded(token) =>
                  /\ \A new_password \in NewPasswords :
                         reset_password(p, token, new_password) =>
                             response'[p].status = 400 /\ pc'[p] = "idle"
                  /\ verify_reset_token(p, token) => response'[p].status = 400
       /\ \A p \in Procs :
              forgot_password_insert_token(p) =>
                  \A k \in 1..Len(password_resets') :
                      (password_resets'[k].email = loc[p].email
                           /\ ~password_resets'[k].used) =>
                          password_resets'[k].token = loc[p].reset_token]_vars

\* The number of completed days of a challenge.
DaysDone(c) == Len(c.completed_days)

\* completed_days is 1..k, current_day is min(k + 1, 7) and the challenge is
\* completed exactly when k = 7.
WellFormedChallenge(c) ==
    /\ DaysDone(c) <= 7
    /\ \A i \in 1..DaysDone(c) : c.completed_days[i] = i
    /\ c.current_day = (IF DaysDone(c) + 1 < 7 THEN DaysDone(c) + 1 ELSE 7)
    /\ (c.status = "completed") <=> (DaysDone(c) = 7)
    /\ c.status \in {"active", "completed"}

IsRejected(p) == response'[p].status = 400 /\ pc'[p] = "idle" /\ challenges' = challenges

\* C27: every stored challenge is well formed and its number of completed
\* days never decreases; complete_challenge_day is rejected without change
\* for a day that is neither completed nor the current day and for any day
\* of a completed challenge, and changes nothing for a completed day.
C27_ChallengeProgress ==
    [][/\ \A k \in 1..Len(challenges') : WellFormedChallenge(challenges'[k])
       /\ \A k \in 1..Len(challenges) :
              DaysDone(challenges'[k]) >= DaysDone(challenges[k])
       /\ \A p \in Procs, k \in 1..Len(challenges), day \in Days,
             reflection \in Reflections :
              complete_challenge_day(p, challenges[k].user_id,
                                     challenges[k].challenge_id, day, reflection) =>
                  /\ (challenges[k].status = "completed") => IsRejected(p)
                  /\ (day # challenges[k].current_day
                         /\ \A i \in 1..DaysDone(challenges[k]) :
                                challenges[k].completed_days[i] # day)
                        => IsRejected(p)
                  /\ (\E i \in 1..DaysDone(challenges[k]) :
                          challenges[k].completed_days[i] = day)
                        => (pc'[p] = "idle" /\ challenges' = challenges)]_vars

\* The place of a pack status in pending_partner -> pending_tests -> complete.
StatusRank(status) ==
    CASE status = "pending_partner" -> 1
      [] status = "pending_tests" -> 2
      [] status = "complete" -> 3
      [] OTHER -> 0

\* A stored result with this id belongs to this user.
IsResultOf(stored, rid, u) ==
    \E k \in 1..Len(stored) : stored[k].result_id = rid /\ stored[k].user_id = u

\* C28: the status of a couples pack never moves back, a partner_id that
\* is set never changes, and a complete pack has both result ids set, the
\* creator's belonging to the creator and the partner's to the partner,
\* also when join_couples_pack and link_result_to_pack interleave.
C28_PackForward ==
    [][/\ \A k \in 1..Len(couples_packs) :
              /\ StatusRank(couples_packs'[k].status) >= StatusRank(couples_packs[k].status)
              /\ couples_packs[k].partner_id # NoUser =>
                     couples_packs'[k].partner_id = couples_packs[k].partner_id
       /\ \A k \in 1..Len(couples_packs') :
              /\ StatusRank(couples_packs'[k].status) >= 1
              /\ couples_packs'[k].status = "complete" =>
                     /\ couples_packs'[k].creator_result_id # NoResult
                     /\ couples_packs'[k].partner_result_id # NoResult
                     /\ IsResultOf(results', couples_packs'[k].creator_result_id,
                                   couples_packs'[k].creator_id)
                     /\ IsResultOf(results', couples_packs'[k].partner_result_id,
                                   couples_packs'[k].partner_id)]_vars

\* The largest max_members a pack of this type may have.
Ceiling(pack_type) ==
    CASE pack_type = "family" -> 6
      [] pack_type = "team" -> 10
      [] OTHER -> 0

\* C29: a team pack never has more members than its max_members, and its
\* max_members never exceeds 6 for a family pack or 10 for a team pack,
\* whatever max_members was requested and also when join_team_pack and
\* join_team_via_link interleave.
C29_MembersWithinMax ==
    \A k \in 1..Len(team_packs) :
        /\ Len(team_packs[k].members) <= team_packs[k].max_members
        /\ team_packs[k].max_members <= Ceiling(team_packs[k].pack_type)

\* C30: in every team pack no user_id is in members twice and the owner is
\* a member, after any sequence of invite_team_member, join_team_pack,
\* join_team_via_link and leave_team_pack calls; and no invite is accepted
\* twice.
C30_MembersDistinct ==
    /\ \A k \in 1..Len(team_packs) :
           /\ \A i, j \in 1..Len(team_packs[k].members) :
                  i # j => team_packs[k].members[i].user_id
                               # team_packs[k].members[j].user_id
           /\ \E i \in 1..Len(team_packs[k].members) :
                  team_packs[k].members[i].user_id = team_packs[k].owner_id
    /\ \A i, j \in 1..Len(accepted) : i # j => accepted[i] # accepted[j]

====
